----------------------------- MODULE Spec2Model -----------------------------
(***************************************************************************)
(* Model of the PDF metadata extractor: the heuristic classifier           *)
(* extract_metadata of extractors.py, its older copy inside api.py, and    *)
(* the calls that apply them to a document.                                *)
(*                                                                         *)
(* A text is a sequence of characters.  A character is a one-character     *)
(* string; the non-ASCII glyphs the code names are the atoms "sup1" ..     *)
(* "sup9" (superscript digits) and "emdash".  A line is a sequence of      *)
(* characters without "\n".  An optional string that is absent is None.    *)
(***************************************************************************)
EXTENDS Integers, Sequences, FiniteSets, TLC

(***************************************************************************)
(* Character classes of Python's str methods and of the re module.         *)
(***************************************************************************)
UpperSeq ==
  <<"A", "B", "C", "D", "E", "F", "G", "H", "I", "J", "K", "L", "M",
    "N", "O", "P", "Q", "R", "S", "T", "U", "V", "W", "X", "Y", "Z">>
LowerSeq ==
  <<"a", "b", "c", "d", "e", "f", "g", "h", "i", "j", "k", "l", "m",
    "n", "o", "p", "q", "r", "s", "t", "u", "v", "w", "x", "y", "z">>
Upper == {UpperSeq[i] : i \in 1..26}
Lower == {LowerSeq[i] : i \in 1..26}
Digit == {"0", "1", "2", "3", "4", "5", "6", "7", "8", "9"}
Superscript == {"sup1", "sup2", "sup3", "sup4", "sup5", "sup6", "sup7", "sup8", "sup9"}
Whitespace == {" ", "\t"}
NL == "\n"
None == <<"None">>

\* str.lower() on one character
LowerMap == [c \in Upper |-> LowerSeq[CHOOSE i \in 1..26 : UpperSeq[i] = c]]
LowerChar(c) == IF c \in Upper THEN LowerMap[c] ELSE c
\* str.lower()
ToLower(s) == [i \in 1..Len(s) |-> LowerChar(s[i])]

(***************************************************************************)
(* String primitives.                                                      *)
(***************************************************************************)
\* the smallest element of a set of integers, 0 for the empty set
First(S) == IF S = {} THEN 0 ELSE CHOOSE x \in S : \A y \in S : x <= y
\* first index >= i of s whose character is outside class C (Len(s)+1 if none):
\* the end of a greedy run C* that starts at i
RunEnd(s, i, C) ==
  IF i > Len(s) THEN i
  ELSE CHOOSE k \in i..(Len(s) + 1) :
         /\ k = Len(s) + 1 \/ s[k] \notin C
         /\ \A j \in i..(k - 1) : s[j] \in C
\* last index <= i of s whose character is outside class C (0 if none)
RunStart(s, i, C) ==
  IF i < 1 THEN i
  ELSE CHOOSE k \in 0..i :
         /\ k = 0 \/ s[k] \notin C
         /\ \A j \in (k + 1)..i : s[j] \in C
\* s[i:] of Python, i counted from 1
From(s, i) == SubSeq(s, i, Len(s))
\* s.startswith(p, i-1)
StartsWithAt(s, i, p) ==
  /\ i + Len(p) - 1 <= Len(s)
  /\ \A k \in 1..Len(p) : s[i + k - 1] = p[k]
StartsWith(s, p) == StartsWithAt(s, 1, p)
\* p in s
Contains(s, p) == \E i \in 1..(Len(s) - Len(p) + 1) : StartsWithAt(s, i, p)
\* any(w in s for w in words)
ContainsAny(s, words) == \E w \in words : Contains(s, w)
\* s.strip()
Strip(s) ==
  IF s = <<>> THEN <<>>
  ELSE LET lo == RunEnd(s, 1, Whitespace)
           hi == RunStart(s, Len(s), Whitespace)
       IN  IF lo > Len(s) THEN <<>> ELSE SubSeq(s, lo, hi)
\* s.rstrip(chars)
RStripChars(s, C) == IF s = <<>> THEN <<>> ELSE SubSeq(s, 1, RunStart(s, Len(s), C))
\* s.endswith(c) for a single character c
EndsWithChar(s, c) == Len(s) > 0 /\ s[Len(s)] = c
\* s.split(c) for a single character c: the segments between the occurrences of c
Split(s, c) ==
  IF s = <<>> THEN << <<>> >> ELSE
  LET at == SelectSeq([i \in 1..Len(s) |-> i], LAMBDA i : s[i] = c)
      n == Len(at)
  IN  [k \in 1..(n + 1) |->
         SubSeq(s, IF k = 1 THEN 1 ELSE at[k - 1] + 1, IF k = n + 1 THEN Len(s) ELSE at[k] - 1)]
\* len(s.split()): the number of whitespace-separated words
WordCount(s) ==
  Cardinality({i \in 1..Len(s) : s[i] \notin Whitespace /\ (i = 1 \/ s[i - 1] \in Whitespace)})
\* sep.join(parts[lo-1:hi]), halving the list
RECURSIVE JoinRange(_, _, _, _)
JoinRange(sep, parts, lo, hi) ==
  IF lo > hi THEN <<>>
  ELSE IF lo = hi THEN parts[lo]
  ELSE LET mid == (lo + hi) \div 2
       IN  JoinRange(sep, parts, lo, mid) \o sep \o JoinRange(sep, parts, mid + 1, hi)
\* sep.join(parts)
Join(sep, parts) == IF parts = <<>> THEN <<>> ELSE JoinRange(sep, parts, 1, Len(parts))
\* s.replace(old, new): the occurrences of old are replaced from the left, without overlap
RECURSIVE Replace(_, _, _)
Replace(s, old, new) ==
  IF Len(s) < Len(old) THEN s
  ELSE LET p == First({k \in 1..(Len(s) - Len(old) + 1) : StartsWithAt(s, k, old)})
       IN  IF p = 0 THEN s
           ELSE SubSeq(s, 1, p - 1) \o new \o Replace(From(s, p + Len(old)), old, new)
\* re.sub(r'\s+', ' ', s): the first character of a whitespace run becomes a space,
\* the rest of the run is dropped
CollapseSpaces(s) ==
  IF s = <<>> THEN <<>> ELSE
  LET marked == [i \in 1..Len(s) |->
                   IF s[i] \notin Whitespace THEN s[i]
                   ELSE IF i = 1 \/ s[i - 1] \notin Whitespace THEN " "
                   ELSE "dropped"]
  IN  SelectSeq(marked, LAMBDA c : c # "dropped")
\* re.sub(r'[C]+', '', s)
RemoveAll(s, C) == SelectSeq(s, LAMBDA c : c \notin C)
\* seq[:n]
Take(seq, n) == SubSeq(seq, 1, IF Len(seq) < n THEN Len(seq) ELSE n)
\* s.isdigit(): superscript digits count as digits for str.isdigit
IsDigitStr(s) == Len(s) > 0 /\ \A i \in 1..Len(s) : s[i] \in Digit \cup Superscript

(***************************************************************************)
(* The literal words of the source.                                        *)
(***************************************************************************)
W_universitas == <<"u", "n", "i", "v", "e", "r", "s", "i", "t", "a", "s">>
W_fakultas == <<"f", "a", "k", "u", "l", "t", "a", "s">>
W_jurusan == <<"j", "u", "r", "u", "s", "a", "n">>
W_program_studi == <<"p", "r", "o", "g", "r", "a", "m", " ", "s", "t", "u", "d", "i">>
W_issn == <<"i", "s", "s", "n">>
W_vol_dot == <<"v", "o", "l", ".">>
W_volume == <<"v", "o", "l", "u", "m", "e">>
W_jurnal == <<"j", "u", "r", "n", "a", "l">>
W_email == <<"e", "m", "a", "i", "l">>
W_at_sign == <<"@">>
W_doi_colon == <<"d", "o", "i", ":">>
W_http_scheme == <<"h", "t", "t", "p", ":", "/", "/">>
W_https_scheme == <<"h", "t", "t", "p", "s", ":", "/", "/">>
W_pada == <<"p", "a", "d", "a">>
W_tahun == <<"t", "a", "h", "u", "n">>
W_oleh == <<"o", "l", "e", "h">>
W_dengan == <<"d", "e", "n", "g", "a", "n">>
W_yang == <<"y", "a", "n", "g">>
W_untuk == <<"u", "n", "t", "u", "k">>
W_abstrak == <<"a", "b", "s", "t", "r", "a", "k">>
W_abstract == <<"a", "b", "s", "t", "r", "a", "c", "t">>
W_manajemen == <<"m", "a", "n", "a", "j", "e", "m", "e", "n">>
W_D4 == <<"D", "4">>
W_S1 == <<"S", "1">>
W_S2 == <<"S", "2">>
W_S3 == <<"S", "3">>
W_Manajemen == <<"M", "a", "n", "a", "j", "e", "m", "e", "n">>
W_Fakultas == <<"F", "a", "k", "u", "l", "t", "a", "s">>
W_pendahuluan == <<"p", "e", "n", "d", "a", "h", "u", "l", "u", "a", "n">>
W_introduction == <<"i", "n", "t", "r", "o", "d", "u", "c", "t", "i", "o", "n">>
W_latar_belakang == <<"l", "a", "t", "a", "r", " ", "b", "e", "l", "a", "k", "a", "n", "g">>
W_i_dot == <<"i", ".">>
W_one_dot == <<"1", ".">>
W_kata == <<"k", "a", "t", "a">>
W_kunci == <<"k", "u", "n", "c", "i">>
W_key == <<"k", "e", "y">>
W_word == <<"w", "o", "r", "d">>
W_page == <<"p", "a", "g", "e">>
W_Abstract == <<"A", "b", "s", "t", "r", "a", "c", "t">>
W_Abstrak == <<"A", "b", "s", "t", "r", "a", "k">>
W_Pendahuluan == <<"P", "e", "n", "d", "a", "h", "u", "l", "u", "a", "n">>
W_Introduction == <<"I", "n", "t", "r", "o", "d", "u", "c", "t", "i", "o", "n">>
W_I_dot == <<"I", ".">>
W_sp_dan_sp == <<" ", "d", "a", "n", " ">>
W_sp_and_sp == <<" ", "a", "n", "d", " ">>
W_comma_sp == <<",", " ">>

(***************************************************************************)
(* The regular expressions of the source, one operator per pattern.  The   *)
(* character classes that follow one another in every pattern are          *)
(* disjoint, so a greedy run is the only way the pattern can match and     *)
(* RunEnd gives the end of each repetition.                                *)
(***************************************************************************)
\* re.match(r'^[\d\s]+$', line)
OnlyDigitsAndSpace(line) ==
  Len(line) > 0 /\ \A i \in 1..Len(line) : line[i] \in Digit \cup Whitespace
\* re.match(r'^Page\s+\d+', line, re.IGNORECASE)
PageMarker(line) ==
  LET l == ToLower(line)
      e == RunEnd(l, Len(W_page) + 1, Whitespace)
  IN  /\ StartsWith(l, W_page)
      /\ e > Len(W_page) + 1
      /\ e <= Len(l)
      /\ l[e] \in Digit
\* r'[A-Z][a-z]+\s*\d+\s*,\s*[A-Z][a-z]+' matched at position i
AuthorSignatureAt(s, i) ==
  /\ s[i] \in Upper
  /\ LET a == RunEnd(s, i + 1, Lower)
         b == RunEnd(s, a, Whitespace)
         c == RunEnd(s, b, Digit)
         d == RunEnd(s, c, Whitespace)
         e == RunEnd(s, d + 1, Whitespace)
     IN  /\ a > i + 1
         /\ c > b
         /\ d <= Len(s)
         /\ s[d] = ","
         /\ e + 1 <= Len(s)
         /\ s[e] \in Upper
         /\ s[e + 1] \in Lower
\* re.search(r'[A-Z][a-z]+\s*\d+\s*,\s*[A-Z][a-z]+', line)
HasAuthorSignature(line) == \E i \in 1..Len(line) : AuthorSignatureAt(line, i)
\* re.match(r'^\d{1,3}$', line)
BarePageNumber(line) ==
  Len(line) \in 1..3 /\ \A i \in 1..Len(line) : line[i] \in Digit
\* re.match(r'^\d{4}$', line)
BareYear(line) ==
  Len(line) = 4 /\ \A i \in 1..4 : line[i] \in Digit
\* re.match(r'^[A-Z][a-z]+\s+\d{4}$', line)
MonthYear(line) ==
  /\ Len(line) > 0
  /\ line[1] \in Upper
  /\ LET a == RunEnd(line, 2, Lower)
         b == RunEnd(line, a, Whitespace)
     IN  /\ a > 2
         /\ b > a
         /\ b + 3 = Len(line)
         /\ \A k \in b..(b + 3) : line[k] \in Digit
\* re.sub(r'[sup]+$', '', s): drop the trailing run of superscript glyphs
StripTrailingSuperscripts(s) == RStripChars(s, Superscript)
\* re.match(r'^(D4|S1|S2|S3|Manajemen|Fakultas)', line)
DegreePrefix(line) ==
  \E w \in {W_D4, W_S1, W_S2, W_S3, W_Manajemen, W_Fakultas} : StartsWith(line, w)
\* the tail (?:\s+[A-Z][a-z]{m,})*$ of the name patterns, from position i
RECURSIVE NameTail(_, _, _)
NameTail(s, i, m) ==
  IF i > Len(s) THEN TRUE
  ELSE LET b == RunEnd(s, i, Whitespace)
           c == RunEnd(s, b + 1, Lower)
       IN  /\ b > i
           /\ b <= Len(s)
           /\ s[b] \in Upper
           /\ c - (b + 1) >= m
           /\ NameTail(s, c, m)
\* re.match(r'^[A-Z][a-z]+(?:\s+[A-Z][a-z]{m,})*$', part); m = 0 is [a-z]*, m = 1 is [a-z]+
NameShape(part, m) ==
  /\ Len(part) > 0
  /\ part[1] \in Upper
  /\ RunEnd(part, 2, Lower) > 2
  /\ NameTail(part, RunEnd(part, 2, Lower), m)
\* re.match(r'^[A-Z][a-z]+', line)
StartsCapitalized(line) ==
  Len(line) >= 2 /\ line[1] \in Upper /\ line[2] \in Lower
\* end (exclusive) of the greedy match of (?:\s+[A-Z][a-z]+)* from position a
RECURSIVE NameSpanEnd(_, _)
NameSpanEnd(s, a) ==
  LET b == RunEnd(s, a, Whitespace)
  IN  IF b > a /\ b + 1 <= Len(s) /\ s[b] \in Upper /\ s[b + 1] \in Lower
      THEN NameSpanEnd(s, RunEnd(s, b + 1, Lower))
      ELSE a
\* re.findall(r'([A-Z][a-z]+(?:\s+[A-Z][a-z]+)*)', s[i-1:]): leftmost, non-overlapping
RECURSIVE FindAllNames(_, _)
FindAllNames(s, i) ==
  LET p == First({k \in i..(Len(s) - 1) : s[k] \in Upper /\ s[k + 1] \in Lower})
      e == NameSpanEnd(s, RunEnd(s, p + 1, Lower))
  IN  IF p = 0 THEN <<>>
      ELSE <<SubSeq(s, p, e - 1)>> \o FindAllNames(s, e)
\* length of the token (abstrak|abstract) at the start of the lowered line, 0 if none
AbstractTokenLen(l) ==
  IF StartsWith(l, W_abstrak) THEN Len(W_abstrak)
  ELSE IF StartsWith(l, W_abstract) THEN Len(W_abstract)
  ELSE 0
DashOrColon == {"-", "emdash", ":"}
Dash == {"-", "emdash"}
\* re.match(r'^(abstrak|abstract)\s*[-:]?\s*$', line, re.IGNORECASE), the class holding - emdash :
StandaloneAbstractHeader(line) ==
  LET l == ToLower(line)
      n == AbstractTokenLen(l)
      a == RunEnd(l, n + 1, Whitespace)
      b == IF a <= Len(l) /\ l[a] \in DashOrColon THEN a + 1 ELSE a
  IN  n > 0 /\ RunEnd(l, b, Whitespace) > Len(l)
\* re.match(r'^(abstrak|abstract)\s*[seps]', line, re.IGNORECASE)
AbstractHeaderWith(line, seps) ==
  LET l == ToLower(line)
      n == AbstractTokenLen(l)
      a == RunEnd(l, n + 1, Whitespace)
  IN  n > 0 /\ a <= Len(l) /\ l[a] \in seps
\* re.sub(r'^(abstrak|abstract)\s*[-]\s*', '', line, flags=re.IGNORECASE) on an inline header
InlineAbstractContent(line) ==
  LET l == ToLower(line)
      a == RunEnd(l, AbstractTokenLen(l) + 1, Whitespace)
  IN  From(line, RunEnd(line, a + 1, Whitespace))
\* re.match(r'^(pendahuluan|introduction|latar belakang|^I\.\s|^1\.\s)', line, re.IGNORECASE)
SectionHeading(line) ==
  LET l == ToLower(line)
  IN  \/ \E w \in {W_pendahuluan, W_introduction, W_latar_belakang} : StartsWith(l, w)
      \/ \E w \in {W_i_dot, W_one_dot} :
           StartsWith(l, w) /\ Len(l) > Len(w) /\ l[Len(w) + 1] \in Whitespace
\* end (exclusive) of (kata[\s\-]?kunci|key[\s\-]?words?) matched at position i of the
\* lowered line l, 0 if it does not match there
KeywordsTokenEnd(l, i) ==
  LET gap(j) == IF j <= Len(l) /\ l[j] \in Whitespace \cup {"-"} THEN j + 1 ELSE j
      k1 == i + Len(W_kata)
      k2 == i + Len(W_key)
  IN  IF StartsWithAt(l, i, W_kata) /\ StartsWithAt(l, gap(k1), W_kunci)
        THEN gap(k1) + Len(W_kunci)
      ELSE IF StartsWithAt(l, i, W_key) /\ StartsWithAt(l, gap(k2), W_word)
        THEN LET e == gap(k2) + Len(W_word)
             IN  IF e <= Len(l) /\ l[e] = "s" THEN e + 1 ELSE e
      ELSE 0
\* position of the separator when (kata...|key...)\s*[seps] matches at position i, else 0
KeywordsHeaderSep(l, i, seps) ==
  LET e == KeywordsTokenEnd(l, i)
      a == RunEnd(l, e, Whitespace)
  IN  IF e > 0 /\ a <= Len(l) /\ l[a] \in seps THEN a ELSE 0
\* re.match(r'^(kata[\s\-]?kunci|key[\s\-]?words?)\s*[-:]', line, re.IGNORECASE)
KeywordsHeaderAtStart(line) == KeywordsHeaderSep(ToLower(line), 1, DashOrColon) > 0
\* re.search(r'(^|\.\s*)(kata[\s\-]?kunci|key[\s\-]?words?)\s*[-:]', line, re.IGNORECASE)
KeywordsHeaderInline(line) ==
  LET l == ToLower(line)
  IN  \E i \in 1..Len(l) :
        /\ KeywordsHeaderSep(l, i, DashOrColon) > 0
        /\ \/ i = 1
           \/ LET d == RunStart(l, i - 1, Whitespace) IN d >= 1 /\ l[d] = "."
\* re.sub(r'^.*(kata[\s\-]?kunci|key[\s\-]?words?)\s*[seps]\s*', '', line, flags=re.IGNORECASE):
\* the greedy .* takes the last position where the header matches
AfterLastKeywordsHeader(line, seps) ==
  LET l == ToLower(line)
      starts == {i \in 1..Len(l) : KeywordsHeaderSep(l, i, seps) > 0}
  IN  IF starts = {} THEN line
      ELSE LET i == CHOOSE x \in starts : \A y \in starts : y <= x
           IN  From(line, RunEnd(line, KeywordsHeaderSep(l, i, seps) + 1, Whitespace))
\* re.match(r'^(Abstract|Abstrak|Pendahuluan|Introduction|I\.|1\.|[A-Z][a-z]+ [a-z]+ [a-z]+)', s)
StartsNewSection(s) ==
  \/ \E w \in {W_Abstract, W_Abstrak, W_Pendahuluan, W_Introduction, W_I_dot, W_one_dot} :
       StartsWith(s, w)
  \/ /\ Len(s) > 0
     /\ s[1] \in Upper
     /\ LET a == RunEnd(s, 2, Lower)
            b == RunEnd(s, a + 1, Lower)
        IN  /\ a > 2
            /\ a <= Len(s) /\ s[a] = " "
            /\ b > a + 1
            /\ b + 1 <= Len(s) /\ s[b] = " " /\ s[b + 1] \in Lower

(***************************************************************************)
(* Program constants.                                                      *)
(***************************************************************************)
TitleScanLines == 50
AltScanLines == 60
AbstractWindow == 100
MaxAuthors == 10
MaxKeywords == 10
MaxKeywordWords == 5
MaxKeywordLen == 100
ShortLine == 2
MinTitleLine == 5
MinAbstractLine == 5
ContinuationLen == 100
ApiMaxKeywords == 15
ApiContinuationLen == 150
ApiTitlePrefix == 50
ApiAuthorLookahead == 5

skip_words ==
  {W_universitas, W_fakultas, W_jurusan, W_program_studi, W_issn, W_vol_dot, W_volume,
   W_jurnal, W_email, W_at_sign, W_doi_colon, W_http_scheme, W_https_scheme}
narrative_words == {W_pada, W_tahun, W_oleh, W_dengan, W_yang, W_abstrak}
affiliation_words == {W_universitas, W_fakultas, W_manajemen, W_at_sign}
abstract_words == {W_abstrak, W_abstract}

(***************************************************************************)
(* extractors.py: the Line Normalizer at the head of extract_metadata.     *)
(***************************************************************************)
\* the non-blank raw lines, kept with their leading and trailing whitespace
StrippedLines_Untrimmed(text) ==
  LET raw == Split(text, NL)
  IN  SelectSeq(raw, LAMBDA l : Strip(l) # <<>>)
\* [l.strip() for l in text.split("\n") if l.strip()]
StrippedLines(text) ==
  LET raw == Split(text, NL)
      stripped == [i \in 1..Len(raw) |-> Strip(raw[i])]
  IN  SelectSeq(stripped, LAMBDA l : l # <<>>)
\* the cleaning loop without its test for "Page <number>" lines
KeepLine_NoPageRule(line) ==
  /\ ~OnlyDigitsAndSpace(line)
  /\ ~(Len(line) <= ShortLine)
\* the test of the cleaning loop: TRUE when the loop appends the line
KeepLine(line) ==
  /\ ~OnlyDigitsAndSpace(line)
  /\ ~PageMarker(line)
  /\ ~(Len(line) <= ShortLine)
cleaned_lines(text) == SelectSeq(StrippedLines(text), KeepLine)

(***************************************************************************)
(* extractors.py: _extract_title.  The buffers hold the indices (from 1)   *)
(* of the lines the code appends.                                          *)
(***************************************************************************)
\* the window lines[:n] of a scan, as indices
Window(lines, n) == 1..(IF Len(lines) < n THEN Len(lines) ELSE n)
\* the line confirmed as an author line: signature pattern and no narrative word
ConfirmedAuthorLine(line) ==
  HasAuthorSignature(line) /\ ~ContainsAny(ToLower(line), narrative_words)
\* for j in range(1, 3): the affiliation lines absorbed after author line i
RECURSIVE Affiliations(_, _, _)
Affiliations(lines, i, j) ==
  IF j >= 3 THEN <<>>
  ELSE IF ~(i + j <= Len(lines)) THEN Affiliations(lines, i, j + 1)
  ELSE LET next_line == ToLower(lines[i + j])
       IN  IF ContainsAny(next_line, abstract_words) THEN <<>>
           ELSE IF ContainsAny(next_line, affiliation_words)
                THEN <<i + j>> \o Affiliations(lines, i, j + 1)
                ELSE <<>>
\* a line the loop over enumerate(lines[:50]) does not skip: no skip word, at least 5
\* characters, not a number
Scanned(line) ==
  /\ ~ContainsAny(ToLower(line), skip_words)
  /\ ~(Len(line) < MinTitleLine \/ IsDigitStr(line))
\* the iteration that sets found_authors: the first confirmed author line (0 if none)
FirstAuthorLine(lines) ==
  First({i \in Window(lines, TitleScanLines) :
           Scanned(lines[i]) /\ ConfirmedAuthorLine(lines[i])})
\* the iteration that reaches the break: the first line after author line a that is
\* neither skipped nor an author line (0 if none)
ScanBreak(lines, a) ==
  IF a = 0 THEN 0
  ELSE First({i \in Window(lines, TitleScanLines) :
                i > a /\ Scanned(lines[i]) /\ ~ConfirmedAuthorLine(lines[i])})
\* the title test without the post-author cutoff: a line after the author line still
\* joins the title buffer
TitleLine_NoCutoff(lines, i, a) ==
  /\ Scanned(lines[i])
  /\ ~ConfirmedAuthorLine(lines[i])
  /\ ~(BarePageNumber(lines[i]) \/ BareYear(lines[i]) \/ MonthYear(lines[i]))
\* line i is appended to title_lines, a being the first author line: the line is not
\* skipped, is not an author line, comes while found_authors is unset and is no bare
\* page number, year or month-year
TitleLine(lines, i, a) ==
  /\ Scanned(lines[i])
  /\ ~ConfirmedAuthorLine(lines[i])
  /\ a = 0 \/ i < a
  /\ ~(BarePageNumber(lines[i]) \/ BareYear(lines[i]) \/ MonthYear(lines[i]))
RECURSIVE Flatten(_)
Flatten(seqs) == IF seqs = <<>> THEN <<>> ELSE Head(seqs) \o Flatten(Tail(seqs))
\* the whole loop over enumerate(lines[:50]): the buffers when the loop ends, as indices.
\* An author line is appended, with its affiliations, from the first one up to the break.
TitleScan(lines) ==
  LET a == FirstAuthorLine(lines)
      b == ScanBreak(lines, a)
      n == IF Len(lines) < TitleScanLines THEN Len(lines) ELSE TitleScanLines
      window == [i \in 1..n |-> i]
      signed == SelectSeq(window, LAMBDA i : /\ a # 0 /\ i >= a /\ (b = 0 \/ i < b)
                                             /\ Scanned(lines[i])
                                             /\ ConfirmedAuthorLine(lines[i]))
  IN  [title_lines |-> SelectSeq(window, LAMBDA i : TitleLine(lines, i, a)),
       author_lines |-> Flatten([k \in 1..Len(signed) |->
                                   <<signed[k]>> \o Affiliations(lines, signed[k], 1)]),
       found_authors |-> a # 0]
\* the texts of the buffered lines
LinesAt(lines, idx) == [k \in 1..Len(idx) |-> lines[idx[k]]]
\* the title assembly: join, collapse whitespace, strip trailing superscripts
TitleText(title_lines) ==
  Strip(StripTrailingSuperscripts(Strip(CollapseSpaces(Join(<<" ">>, title_lines)))))
_extract_title(lines) ==
  LET st == TitleScan(lines)
  IN  IF st.title_lines # <<>> THEN TitleText(LinesAt(lines, st.title_lines)) ELSE None

(***************************************************************************)
(* extractors.py: _extract_authors.                                        *)
(***************************************************************************)
\* the first loop run over all lines instead of lines[:50]
AuthorScan_NoWindow(lines) ==
  LET i == First({k \in 1..Len(lines) : ConfirmedAuthorLine(lines[k])})
  IN  IF i = 0 THEN <<>> ELSE <<i>> \o Affiliations(lines, i, 1)
\* the first loop: the first confirmed author line among lines[:50] and its affiliations
AuthorScan(lines) ==
  LET i == First({k \in Window(lines, TitleScanLines) : ConfirmedAuthorLine(lines[k])})
  IN  IF i = 0 THEN <<>> ELSE <<i>> \o Affiliations(lines, i, 1)
\* the stripped comma-separated parts of one buffered author line, none for a line the
\* loop skips
NameParts(line) ==
  IF DegreePrefix(line) \/ Contains(ToLower(line), W_universitas) THEN <<>>
  ELSE IF Contains(line, W_at_sign) THEN <<>>
  ELSE LET clean_line == RemoveAll(RemoveAll(line, Superscript), Digit)
           parts == Split(clean_line, ",")
       IN  [k \in 1..Len(parts) |-> Strip(parts[k])]
LongerThanTwo(part) == Len(part) > 2
\* the names one buffered author line contributes
NamesOfLine(line) ==
  SelectSeq(NameParts(line), LAMBDA part : NameShape(part, 0) /\ LongerThanTwo(part))
\* remove duplicates while preserving order
RECURSIVE Unique(_, _)
Unique(seq, seen) ==
  IF seq = <<>> THEN <<>>
  ELSE IF Head(seq) \in seen THEN Unique(Tail(seq), seen)
  ELSE <<Head(seq)>> \o Unique(Tail(seq), seen \cup {Head(seq)})
\* the list authors of "Process authors"
PrimaryAuthors(lines) ==
  LET author_lines == LinesAt(lines, AuthorScan(lines))
  IN  Flatten([k \in 1..Len(author_lines) |-> NamesOfLine(author_lines[k])])
\* the names the alternative approach takes from one line: the spans with a space
SpacedNames(line) == SelectSeq(FindAllNames(line, 1), LAMBDA n : Contains(n, <<" ">>))
\* the alternative approach: the first of lines[:60] that yields names (0 if none)
AltAuthorLine(lines) ==
  First({i \in Window(lines, AltScanLines) :
           /\ StartsCapitalized(lines[i])
           /\ ~Contains(lines[i], W_at_sign)
           /\ SpacedNames(lines[i]) # <<>>})
\* which strategy produces the result, and the lines whose names it holds
AuthorStrategy(lines) ==
  IF PrimaryAuthors(lines) # <<>> THEN "primary"
  ELSE IF AltAuthorLine(lines) # 0 THEN "fallback"
  ELSE "none"
AuthorSource(lines) ==
  IF PrimaryAuthors(lines) # <<>>
  THEN SelectSeq(AuthorScan(lines), LAMBDA i : NamesOfLine(lines[i]) # <<>>)
  ELSE IF AltAuthorLine(lines) # 0 THEN <<AltAuthorLine(lines)>>
  ELSE <<>>
_extract_authors(lines) ==
  LET authors == PrimaryAuthors(lines)
      alt == AltAuthorLine(lines)
  IN  IF authors # <<>> THEN Join(W_comma_sp, Take(Unique(authors, {}), MaxAuthors))
      ELSE IF alt # 0 THEN Join(W_comma_sp, Take(SpacedNames(lines[alt]), MaxAuthors))
      ELSE None

(***************************************************************************)
(* extractors.py: _extract_abstract.                                       *)
(***************************************************************************)
\* the first loop: the index of the first abstract header line (0 if none)
AbstractHeaderLine(lines) ==
  First({i \in 1..Len(lines) :
           StandaloneAbstractHeader(lines[i]) \/ AbstractHeaderWith(lines[i], Dash)})
\* the fragment the header line itself contributes to abstract_text
AbstractInline(lines, h) ==
  IF h = 0 \/ StandaloneAbstractHeader(lines[h]) THEN <<>>
  ELSE IF InlineAbstractContent(lines[h]) # <<>> THEN <<InlineAbstractContent(lines[h])>>
  ELSE <<>>
\* the stop conditions without the keywords header
AbstractStop_NoKeywords(line) ==
  \/ AbstractHeaderWith(line, DashOrColon)
  \/ SectionHeading(line)
\* the stop conditions of the collecting loop
AbstractStop(line) ==
  \/ KeywordsHeaderAtStart(line)
  \/ AbstractHeaderWith(line, DashOrColon)
  \/ SectionHeading(line)
\* the collecting loop without its window
AbstractLast_NoWindow(lines, h) == Len(lines)
\* the last line of range(abstract_start, min(abstract_start + 100, len(lines)))
AbstractLast(lines, h) ==
  IF h + AbstractWindow < Len(lines) THEN h + AbstractWindow ELSE Len(lines)
\* the line at which the collecting loop breaks (0 if it runs to the end of its range)
AbstractBreak(lines, h) ==
  First({i \in (h + 1)..AbstractLast(lines, h) : AbstractStop(lines[i])})
\* the collecting loop: the indices of the lines appended after header line h when the
\* loop breaks at line break; the lines longer than 5 are appended
AbstractBody(lines, h, break) ==
  LET end == IF break = 0 THEN AbstractLast(lines, h) ELSE break - 1
  IN  IF h # 0 /\ h < Len(lines)
      THEN SelectSeq([k \in 1..(end - h) |-> h + k], LAMBDA i : Len(lines[i]) > MinAbstractLine)
      ELSE <<>>
\* the join and whitespace clean-up of abstract_text
AbstractText(abstract_text) ==
  IF abstract_text # <<>> THEN Strip(CollapseSpaces(Join(<<" ">>, abstract_text))) ELSE None
\* the lines abstract_text is built from: the header line when it holds an inline
\* fragment, then the collected body lines
AbstractSource(lines) ==
  LET h == AbstractHeaderLine(lines)
  IN  (IF AbstractInline(lines, h) # <<>> THEN <<h>> ELSE <<>>) \o AbstractBody(lines, h, AbstractBreak(lines, h))
_extract_abstract(lines) ==
  LET h == AbstractHeaderLine(lines)
  IN  AbstractText(AbstractInline(lines, h) \o LinesAt(lines, AbstractBody(lines, h, AbstractBreak(lines, h))))

(***************************************************************************)
(* extractors.py: _extract_keywords.                                       *)
(***************************************************************************)
\* the first line with a keywords header (0 if none)
KeywordsHeaderLine(lines) == First({i \in 1..Len(lines) : KeywordsHeaderInline(lines[i])})
\* "Check if keywords continue on next line": TRUE when line h+1 is appended
KeywordsContinue(lines, h) ==
  LET section == AfterLastKeywordsHeader(lines[h], DashOrColon)
      tail == RStripChars(section, Whitespace)
  IN  /\ h + 1 <= Len(lines)
      /\ Contains(lines[h + 1], <<",">>) \/ Len(lines[h + 1]) < ContinuationLen
      /\ ~StartsNewSection(lines[h + 1])
      /\ EndsWithChar(tail, ",") \/ ~EndsWithChar(tail, ".")
\* keywords_section after the header loop
KeywordsSection(lines) ==
  LET h == KeywordsHeaderLine(lines)
  IN  IF h = 0 THEN <<>>
      ELSE IF KeywordsContinue(lines, h)
           THEN AfterLastKeywordsHeader(lines[h], DashOrColon) \o <<" ">> \o lines[h + 1]
           ELSE AfterLastKeywordsHeader(lines[h], DashOrColon)
\* the lines keywords_section is built from
KeywordsSource(lines) ==
  LET h == KeywordsHeaderLine(lines)
  IN  IF h = 0 THEN <<>> ELSE IF KeywordsContinue(lines, h) THEN <<h, h + 1>> ELSE <<h>>
\* the separator normalisation without the two conjunction replacements
NormalizeSeparators_NoConjunctions(section) == Replace(section, <<";">>, <<",">>)
\* the separator normalisation: ; and the conjunctions become commas
NormalizeSeparators(section) ==
  Replace(Replace(Replace(section, <<";">>, <<",">>), W_sp_dan_sp, W_comma_sp),
          W_sp_and_sp, W_comma_sp)
\* the filter without the minimum length
ValidKeyword_NoMinLen(k) ==
  /\ k # <<>>
  /\ Len(k) < MaxKeywordLen
  /\ WordCount(k) <= MaxKeywordWords
\* the filter of the split loop
ValidKeyword(k) ==
  /\ k # <<>>
  /\ Len(k) > 2
  /\ Len(k) < MaxKeywordLen
  /\ WordCount(k) <= MaxKeywordWords
_extract_keywords(lines) ==
  LET keywords_section == KeywordsSection(lines)
      pieces == Split(NormalizeSeparators(RStripChars(keywords_section, {"."})), ",")
      cleaned == [i \in 1..Len(pieces) |-> RStripChars(Strip(pieces[i]), {".", " "})]
  IN  IF keywords_section # <<>> THEN Take(SelectSeq(cleaned, ValidKeyword), MaxKeywords)
      ELSE <<>>

(***************************************************************************)
(* extractors.py: extract_metadata.                                        *)
(***************************************************************************)
extract_metadata(text) ==
  LET lines == cleaned_lines(text)
  IN  [judul |-> _extract_title(lines),
       penulis |-> _extract_authors(lines),
       abstrak |-> _extract_abstract(lines),
       kata_kunci |-> _extract_keywords(lines)]

(***************************************************************************)
(* api.py: extract_metadata, the copy the HTTP endpoints call.  Its line   *)
(* cleaning and its title/author scan are the code of extractors.py; the   *)
(* author assembly, the fallback, the abstract stop conditions and the     *)
(* keyword rules differ.                                                   *)
(***************************************************************************)
\* "Process title": judul is set only when title_text is not empty
api_title(lines) ==
  LET st == TitleScan(lines)
      title_text == TitleText(LinesAt(lines, st.title_lines))
  IN  IF st.title_lines # <<>> /\ title_text # <<>> THEN title_text ELSE None
AtLeastTwoWords(part) == WordCount(part) >= 2
\* the names one buffered author line contributes in api.py
api_names_of_line(line) ==
  SelectSeq(NameParts(line), LAMBDA part : NameShape(part, 1) /\ AtLeastTwoWords(part))
\* "Process authors": the names of the author_lines buffer of the joint scan
api_primary_authors(lines) ==
  LET author_lines == LinesAt(lines, TitleScan(lines).author_lines)
  IN  Flatten([k \in 1..Len(author_lines) |-> api_names_of_line(author_lines[k])])
\* the first of lines[:60] that holds (a prefix of) the title or lies inside it (0 if none)
api_title_line(lines, judul) ==
  First({i \in Window(lines, AltScanLines) :
           Contains(lines[i], Take(judul, ApiTitlePrefix)) \/ Contains(judul, lines[i])})
\* for j in range(1, 6): the line after title line i that yields the names (0 if none)
RECURSIVE api_fallback_line(_, _, _)
api_fallback_line(lines, i, j) ==
  IF j > ApiAuthorLookahead THEN 0
  ELSE IF ~(i + j <= Len(lines)) THEN api_fallback_line(lines, i, j + 1)
  ELSE LET check_line == lines[i + j]
       IN  IF Len(check_line) < MinTitleLine THEN api_fallback_line(lines, i, j + 1)
           ELSE IF ContainsAny(ToLower(check_line), abstract_words) THEN 0
           ELSE IF /\ StartsCapitalized(check_line)
                   /\ ~Contains(check_line, W_at_sign)
                   /\ SpacedNames(check_line) # <<>>
                THEN i + j
           ELSE api_fallback_line(lines, i, j + 1)
\* the line the alternative approach takes the names from (0 if none), judul being
\* metadata["judul"]: the approach runs only when a title was found
api_alt_line(lines, judul) ==
  IF judul = None THEN 0
  ELSE LET t == api_title_line(lines, judul)
       IN  IF t = 0 THEN 0 ELSE api_fallback_line(lines, t, 1)
api_author_strategy(lines, judul) ==
  IF api_primary_authors(lines) # <<>> THEN "primary"
  ELSE IF api_alt_line(lines, judul) # 0 THEN "fallback"
  ELSE "none"
api_author_source(lines, judul) ==
  IF api_primary_authors(lines) # <<>>
  THEN SelectSeq(TitleScan(lines).author_lines, LAMBDA i : api_names_of_line(lines[i]) # <<>>)
  ELSE IF api_alt_line(lines, judul) # 0 THEN <<api_alt_line(lines, judul)>>
  ELSE <<>>
api_authors(lines, judul) ==
  LET authors == api_primary_authors(lines)
  IN  IF authors # <<>> THEN Join(W_comma_sp, Take(Unique(authors, {}), MaxAuthors))
      ELSE IF api_alt_line(lines, judul) # 0
        THEN Join(W_comma_sp, Take(SpacedNames(lines[api_alt_line(lines, judul)]), MaxAuthors))
      ELSE None
\* re.match(r'^(kata kunci|keywords?)\s*[-:]', line, re.IGNORECASE)
api_keywords_stop(line) ==
  LET l == ToLower(line)
      e == IF StartsWith(l, W_kata \o <<" ">> \o W_kunci) THEN Len(W_kata) + Len(W_kunci) + 2
           ELSE IF StartsWith(l, W_key \o W_word)
                THEN IF Len(l) > Len(W_key) + Len(W_word) /\ l[Len(W_key) + Len(W_word) + 1] = "s"
                     THEN Len(W_key) + Len(W_word) + 2
                     ELSE Len(W_key) + Len(W_word) + 1
           ELSE 0
      a == RunEnd(l, e, Whitespace)
  IN  e > 0 /\ a <= Len(l) /\ l[a] \in DashOrColon
api_abstract_stop(line) == api_keywords_stop(line) \/ SectionHeading(line)
api_abstract_break(lines, h) ==
  First({i \in (h + 1)..AbstractLast(lines, h) : api_abstract_stop(lines[i])})
api_abstract_source(lines) ==
  LET h == AbstractHeaderLine(lines)
  IN  (IF AbstractInline(lines, h) # <<>> THEN <<h>> ELSE <<>>) \o AbstractBody(lines, h, api_abstract_break(lines, h))
api_abstract(lines) ==
  LET h == AbstractHeaderLine(lines)
  IN  AbstractText(AbstractInline(lines, h) \o LinesAt(lines, AbstractBody(lines, h, api_abstract_break(lines, h))))
api_header_seps == {"-", "emdash", ":", ".", ")"}
api_section_seps == {"-", "emdash", ":", "."}
\* the first line with a keywords header anywhere in it and none of the narrative words
api_keywords_line(lines) ==
  First({i \in 1..Len(lines) :
           LET l == ToLower(lines[i])
           IN  /\ \E p \in 1..Len(l) : KeywordsHeaderSep(l, p, api_header_seps) > 0
               /\ ~ContainsAny(l, {W_pada, W_tahun, W_dengan, W_yang, W_untuk})})
\* for j in range(1, 3): the indices of the lines appended after header line i
RECURSIVE api_continuation(_, _, _)
api_continuation(lines, i, j) ==
  IF j >= 3 THEN <<>>
  ELSE IF ~(i + j <= Len(lines)) THEN api_continuation(lines, i, j + 1)
  ELSE LET next_line == lines[i + j]
       IN  IF AbstractTokenLen(ToLower(next_line)) > 0 \/ SectionHeading(next_line) THEN <<>>
           ELSE IF /\ Len(next_line) < ApiContinuationLen
                   /\ ~EndsWithChar(next_line, ".")
                   /\ ~ContainsAny(ToLower(next_line), {W_pada, W_tahun, W_dengan})
                THEN <<i + j>> \o api_continuation(lines, i, j + 1)
           ELSE api_continuation(lines, i, j + 1)
\* the lines keywords_section is built from
api_keywords_source(lines) ==
  LET h == api_keywords_line(lines)
  IN  IF h = 0 THEN <<>> ELSE <<h>> \o api_continuation(lines, h, 1)
api_keywords(lines) ==
  LET h == api_keywords_line(lines)
      more == IF h = 0 THEN <<>> ELSE api_continuation(lines, h, 1)
      keywords_section ==
        IF h = 0 THEN <<>>
        ELSE AfterLastKeywordsHeader(lines[h], api_section_seps)
               \o Flatten([k \in 1..Len(more) |-> <<" ">> \o lines[more[k]]])
      pieces == Split(NormalizeSeparators(keywords_section), ",")
      cleaned == [i \in 1..Len(pieces) |-> RStripChars(Strip(pieces[i]), {"."})]
      keywords == SelectSeq(cleaned, LAMBDA k : k # <<>> /\ Len(k) > 2 /\ Len(k) < MaxKeywordLen)
  IN  IF keywords_section # <<>> THEN Take(keywords, ApiMaxKeywords) ELSE <<>>
api_extract_metadata(text) ==
  LET lines == cleaned_lines(text)
  IN  [judul |-> api_title(lines),
       penulis |-> api_authors(lines, api_title(lines)),
       abstrak |-> api_abstract(lines),
       kata_kunci |-> api_keywords(lines)]

(***************************************************************************)
(* The documents the calls are applied to.  A document is built from raw   *)
(* lines: a noise block, a title block, filler lines, an author block, an  *)
(* abstract block and a keywords block, each possibly empty.               *)
(***************************************************************************)
\* the largest number of filler lines put between the title and the author block
MaxPad == 80
\* "   "
L_blank == <<" ", " ", " ">>
\* "12"
L_number == <<"1", "2">>
\* "ab"
L_two_chars == <<"a", "b">>
\* "Page 3 of Great Study"
L_page ==
  <<"P", "a", "g", "e", " ", "3", " ", "o", "f", " ", "G", "r", "e", "a", "t", " ", "S", "t", "u",
    "d", "y">>
\* "A Study of Something"
L_study ==
  <<"A", " ", "S", "t", "u", "d", "y", " ", "o", "f", " ", "S", "o", "m", "e", "t", "h", "i", "n",
    "g">>
\* "Interesting Systems"
L_systems ==
  <<"I", "n", "t", "e", "r", "e", "s", "t", "i", "n", "g", " ", "S", "y", "s", "t", "e", "m", "s">>
\* "  Deep  Nets<sup1>  "
L_deep_nets == <<" ", " ", "D", "e", "e", "p", " ", " ", "N", "e", "t", "s", "sup1", " ", " ">>
\* "Jurnal Teknik Vol. 3"
L_journal ==
  <<"J", "u", "r", "n", "a", "l", " ", "T", "e", "k", "n", "i", "k", " ", "V", "o", "l", ".", " ",
    "3">>
\* "a study of things"
L_things == <<"a", " ", "s", "t", "u", "d", "y", " ", "o", "f", " ", "t", "h", "i", "n", "g", "s">>
\* "Januari 2021"
L_month_year == <<"J", "a", "n", "u", "a", "r", "i", " ", "2", "0", "2", "1">>
\* "lorem ipsum dolor"
L_filler == <<"l", "o", "r", "e", "m", " ", "i", "p", "s", "u", "m", " ", "d", "o", "l", "o", "r">>
\* "JaneDoe1, JohnSmith2"
L_sig_joined ==
  <<"J", "a", "n", "e", "D", "o", "e", "1", ",", " ", "J", "o", "h", "n", "S", "m", "i", "t", "h",
    "2">>
\* "Universitas Contoh"
L_university ==
  <<"U", "n", "i", "v", "e", "r", "s", "i", "t", "a", "s", " ", "C", "o", "n", "t", "o", "h">>
\* "Jane Doe1, John Smith2"
L_sig_spaced ==
  <<"J", "a", "n", "e", " ", "D", "o", "e", "1", ",", " ", "J", "o", "h", "n", " ", "S", "m", "i",
    "t", "h", "2">>
\* "Dosen Fakultas Teknik"
L_faculty ==
  <<"D", "o", "s", "e", "n", " ", "F", "a", "k", "u", "l", "t", "a", "s", " ", "T", "e", "k", "n",
    "i", "k">>
\* "jane@contoh.ac.id"
L_mail == <<"j", "a", "n", "e", "@", "c", "o", "n", "t", "o", "h", ".", "a", "c", ".", "i", "d">>
\* "Jane Doe, Jane Doe"
L_twice ==
  <<"J", "a", "n", "e", " ", "D", "o", "e", ",", " ", "J", "a", "n", "e", " ", "D", "o", "e">>
\* "Ani Wijaya1, Budi2, Ani Wijaya3"
L_sig_repeat ==
  <<"A", "n", "i", " ", "W", "i", "j", "a", "y", "a", "1", ",", " ", "B", "u", "d", "i", "2", ",",
    " ", "A", "n", "i", " ", "W", "i", "j", "a", "y", "a", "3">>
\* "Manajemen Informatika"
L_program ==
  <<"M", "a", "n", "a", "j", "e", "m", "e", "n", " ", "I", "n", "f", "o", "r", "m", "a", "t", "i",
    "k", "a">>
\* "Abstrak"
L_abstrak == <<"A", "b", "s", "t", "r", "a", "k">>
\* "Abstract"
L_abstract == <<"A", "b", "s", "t", "r", "a", "c", "t">>
\* "ABSTRAK:"
L_abstrak_colon == <<"A", "B", "S", "T", "R", "A", "K", ":">>
\* "Abstract - inline body text"
L_abstract_inline ==
  <<"A", "b", "s", "t", "r", "a", "c", "t", " ", "-", " ", "i", "n", "l", "i", "n", "e", " ", "b",
    "o", "d", "y", " ", "t", "e", "x", "t">>
\* "Abstrak: isi kedua"
L_abstrak_second ==
  <<"A", "b", "s", "t", "r", "a", "k", ":", " ", "i", "s", "i", " ", "k", "e", "d", "u", "a">>
\* "isi abstrak pertama"
L_body_one ==
  <<"i", "s", "i", " ", "a", "b", "s", "t", "r", "a", "k", " ", "p", "e", "r", "t", "a", "m", "a">>
\* "short"
L_body_short == <<"s", "h", "o", "r", "t">>
\* "kalimat kedua abstrak"
L_body_two ==
  <<"k", "a", "l", "i", "m", "a", "t", " ", "k", "e", "d", "u", "a", " ", "a", "b", "s", "t", "r",
    "a", "k">>
\* "english body text"
L_body_english ==
  <<"e", "n", "g", "l", "i", "s", "h", " ", "b", "o", "d", "y", " ", "t", "e", "x", "t">>
\* "1. Pendahuluan"
L_section == <<"1", ".", " ", "P", "e", "n", "d", "a", "h", "u", "l", "u", "a", "n">>
\* "isi bab pertama"
L_section_body == <<"i", "s", "i", " ", "b", "a", "b", " ", "p", "e", "r", "t", "a", "m", "a">>
\* "Pendahuluan"
L_intro == <<"P", "e", "n", "d", "a", "h", "u", "l", "u", "a", "n">>
\* "Kata Kunci: x, y, z"
L_kw_xyz ==
  <<"K", "a", "t", "a", " ", "K", "u", "n", "c", "i", ":", " ", "x", ",", " ", "y", ",", " ", "z">>
\* "Keywords: iot, smart home, automation"
L_kw_iot ==
  <<"K", "e", "y", "w", "o", "r", "d", "s", ":", " ", "i", "o", "t", ",", " ", "s", "m", "a", "r",
    "t", " ", "h", "o", "m", "e", ",", " ", "a", "u", "t", "o", "m", "a", "t", "i", "o", "n">>
\* "Key-words: one two three four five six, iot;"
L_kw_six ==
  <<"K", "e", "y", "-", "w", "o", "r", "d", "s", ":", " ", "o", "n", "e", " ", "t", "w", "o", " ",
    "t", "h", "r", "e", "e", " ", "f", "o", "u", "r", " ", "f", "i", "v", "e", " ", "s", "i", "x",
    ",", " ", "i", "o", "t", ";">>
\* "akhir abstrak. Kata kunci: satu dua, tiga."
L_kw_inline ==
  <<"a", "k", "h", "i", "r", " ", "a", "b", "s", "t", "r", "a", "k", ".", " ", "K", "a", "t", "a",
    " ", "k", "u", "n", "c", "i", ":", " ", "s", "a", "t", "u", " ", "d", "u", "a", ",", " ", "t",
    "i", "g", "a", ".">>
\* "Keywords: iot, data mining, iot"
L_kw_dup ==
  <<"K", "e", "y", "w", "o", "r", "d", "s", ":", " ", "i", "o", "t", ",", " ", "d", "a", "t", "a",
    " ", "m", "i", "n", "i", "n", "g", ",", " ", "i", "o", "t">>
\* "Kata kunci: IoT dan smart home dan automation"
L_kw_dan ==
  <<"K", "a", "t", "a", " ", "k", "u", "n", "c", "i", ":", " ", "I", "o", "T", " ", "d", "a", "n",
    " ", "s", "m", "a", "r", "t", " ", "h", "o", "m", "e", " ", "d", "a", "n", " ", "a", "u", "t",
    "o", "m", "a", "t", "i", "o", "n">>
\* "Keywords: machine learning and deep learning"
L_kw_and ==
  <<"K", "e", "y", "w", "o", "r", "d", "s", ":", " ", "m", "a", "c", "h", "i", "n", "e", " ", "l",
    "e", "a", "r", "n", "i", "n", "g", " ", "a", "n", "d", " ", "d", "e", "e", "p", " ", "l", "e",
    "a", "r", "n", "i", "n", "g">>
\* "Jane Doe1, John Smith2 Jurusan Informatika"
L_sig_marker ==
  <<"J", "a", "n", "e", " ", "D", "o", "e", "1", ",", " ", "J", "o", "h", "n", " ", "S", "m", "i",
    "t", "h", "2", " ", "J", "u", "r", "u", "s", "a", "n", " ", "I", "n", "f", "o", "r", "m", "a",
    "t", "i", "k", "a">>
\* "smart devices Keywords: iot, cloud"
L_kw_mid ==
  <<"s", "m", "a", "r", "t", " ", "d", "e", "v", "i", "c", "e", "s", " ", "K", "e", "y", "w", "o",
    "r", "d", "s", ":", " ", "i", "o", "t", ",", " ", "c", "l", "o", "u", "d">>
\* "Keywords. iot, cloud"
L_kw_period ==
  <<"K", "e", "y", "w", "o", "r", "d", "s", ".", " ", "i", "o", "t", ",", " ", "c", "l", "o", "u",
    "d">>
\* "Kata kunci: sistem yang cerdas, iot"
L_kw_yang ==
  <<"K", "a", "t", "a", " ", "k", "u", "n", "c", "i", ":", " ", "s", "i", "s", "t", "e", "m", " ",
    "y", "a", "n", "g", " ", "c", "e", "r", "d", "a", "s", ",", " ", "i", "o", "t">>
\* "PENDAHULUAN"
L_intro_upper == <<"P", "E", "N", "D", "A", "H", "U", "L", "U", "A", "N">>
\* "Kata Kunci: k01, k02, k03, k04, k05, k06, k07, k08, k09, k10, k11, k12, k13, k14, k15, k16"
L_kw_many ==
  <<"K", "a", "t", "a", " ", "K", "u", "n", "c", "i", ":", " ", "k", "0", "1", ",", " ", "k", "0",
    "2", ",", " ", "k", "0", "3", ",", " ", "k", "0", "4", ",", " ", "k", "0", "5", ",", " ", "k",
    "0", "6", ",", " ", "k", "0", "7", ",", " ", "k", "0", "8", ",", " ", "k", "0", "9", ",", " ",
    "k", "1", "0", ",", " ", "k", "1", "1", ",", " ", "k", "1", "2", ",", " ", "k", "1", "3", ",",
    " ", "k", "1", "4", ",", " ", "k", "1", "5", ",", " ", "k", "1", "6">>
L_kw_tail == <<"d", "e", "e", "p", " ", "l", "e", "a", "r", "n", "i", "n", "g", ",", " ">>
\* "deep learning, " followed by a word of 100 letters
L_kw_long == L_kw_tail \o [i \in 1..MaxKeywordLen |-> "a"]

NoiseBlocks == {<<>>, <<L_number, L_blank, L_two_chars, L_page>>}
TitleBlocks ==
  {<<>>, <<L_study, L_systems>>, <<L_deep_nets>>, <<L_journal, L_things, L_month_year>>}
AuthorBlocks ==
  {<<>>,
   <<L_sig_joined, L_university>>,
   <<L_sig_spaced, L_faculty, L_mail>>,
   <<L_twice>>,
   <<L_university>>,
   <<L_sig_repeat, L_program>>,
   <<L_sig_marker, L_systems>>,
   <<L_sig_spaced, L_sig_repeat>>}
AbstractBlocks ==
  {<<>>,
   <<L_abstrak, L_body_one, L_body_short, L_body_two>>,
   <<L_abstrak, L_body_one, L_abstract, L_body_english>>,
   <<L_abstract_inline, L_body_one, L_abstrak_second>>,
   <<L_abstrak_colon, L_body_one, L_section, L_section_body>>}
KeywordBlocks ==
  {<<>>,
   <<L_kw_xyz>>,
   <<L_kw_iot, L_intro, L_section_body>>,
   <<L_kw_six, L_kw_long>>,
   <<L_kw_inline, L_body_two>>,
   <<L_kw_many>>,
   <<L_kw_dup>>,
   <<L_kw_dan, L_intro>>,
   <<L_kw_and>>,
   <<L_kw_mid>>,
   <<L_kw_period>>,
   <<L_kw_yang>>,
   <<L_kw_iot, L_intro_upper>>,
   <<L_kw_iot, L_section_body, L_body_two>>}
Pad(k) == [i \in 1..k |-> L_filler]
PadChoices == {TitleScanLines - 3, TitleScanLines - 2, MaxPad}
\* the text of a sequence of raw lines
TextOf(raw) == Join(<<NL>>, raw)
FrontDocuments ==
  {TextOf(n \o t \o a \o b) :
     n \in NoiseBlocks, t \in TitleBlocks, a \in AuthorBlocks,
     b \in {<<>>, <<L_abstrak, L_body_one, L_kw_xyz>>}}
PaddedDocuments ==
  {TextOf(t \o Pad(k) \o a) :
     t \in {<<>>, <<L_study, L_systems>>}, k \in PadChoices,
     a \in {<<L_sig_joined, L_university>>, <<L_sig_spaced, L_faculty, L_mail>>, <<L_twice>>}}
BackDocuments ==
  {TextOf(f \o b \o k) :
     f \in {<<>>, <<L_study, L_sig_spaced, L_program>>},
     b \in AbstractBlocks, k \in KeywordBlocks}
\* an abstract header followed by about AbstractWindow lines and two more
WindowDocuments ==
  {TextOf(h \o Pad(k) \o <<L_body_one, L_body_two>>) :
     h \in {<<L_abstrak>>, <<L_abstract_inline>>},
     k \in {AbstractWindow - 2, AbstractWindow - 1, AbstractWindow}}
Documents == FrontDocuments \cup PaddedDocuments \cup BackDocuments \cup WindowDocuments
Implementations == {"extractors", "api"}

(***************************************************************************)
(* One call of extract_metadata.  text is the argument, impl the module    *)
(* whose extract_metadata runs, pc the statement the call has reached,     *)
(* lines the local variable lines after cleaning, metadata the dictionary  *)
(* the call fills and returns.  src records, for each field, the indices   *)
(* (from 1) of the cleaned lines the field was built from.                 *)
(***************************************************************************)
VARIABLES text, impl, pc, lines, metadata, src
\* the state of the worker threads that call extract_metadata side by side (see below)
VARIABLES worker, frame, returned
\* the BERKAS folder and the request handlers of api.py (see below)
VARIABLES folder, handler
call_vars == <<text, impl, pc, lines, metadata, src>>
worker_vars == <<worker, frame, returned>>
server_vars == <<folder, handler>>
vars == <<text, impl, pc, lines, metadata, src, worker, frame, returned, folder, handler>>

EmptyMetadata == [judul |-> None, penulis |-> None, abstrak |-> None, kata_kunci |-> <<>>]
NoSource == [title |-> <<>>, authors |-> <<>>, strategy |-> "none", abstract |-> <<>>, keywords |-> <<>>]

\* no worker thread and no request handler runs
NoWorkers == worker = <<>> /\ frame = <<>> /\ returned = <<>>
NoServer == folder = <<>> /\ handler = <<>>
\* no single call of the first specification runs
NoCall ==
  /\ text = <<>> /\ impl = "extractors" /\ pc = "idle"
  /\ lines = <<>> /\ metadata = EmptyMetadata /\ src = NoSource

Init ==
  /\ text \in Documents
  /\ impl \in Implementations
  /\ pc = "clean"
  /\ lines = <<>>
  /\ metadata = EmptyMetadata
  /\ src = NoSource
  /\ NoWorkers
  /\ NoServer

\* lines = [l.strip() ...]; the cleaning loop; lines = cleaned_lines
CleanLines ==
  /\ pc = "clean"
  /\ lines' = cleaned_lines(text)
  /\ pc' = "title"
  /\ UNCHANGED <<text, impl, metadata, src>>
  /\ UNCHANGED <<worker_vars, server_vars>>

\* metadata["judul"] = _extract_title(lines)
ExtractTitle ==
  /\ pc = "title" /\ impl = "extractors"
  /\ metadata' = [metadata EXCEPT !.judul = _extract_title(lines)]
  /\ src' = [src EXCEPT !.title = TitleScan(lines).title_lines]
  /\ pc' = "authors"
  /\ UNCHANGED <<text, impl, lines>>
  /\ UNCHANGED <<worker_vars, server_vars>>

\* metadata["penulis"] = _extract_authors(lines)
ExtractAuthors ==
  /\ pc = "authors" /\ impl = "extractors"
  /\ metadata' = [metadata EXCEPT !.penulis = _extract_authors(lines)]
  /\ src' = [src EXCEPT !.authors = AuthorSource(lines), !.strategy = AuthorStrategy(lines)]
  /\ pc' = "abstract"
  /\ UNCHANGED <<text, impl, lines>>
  /\ UNCHANGED <<worker_vars, server_vars>>

\* metadata["abstrak"] = _extract_abstract(lines)
ExtractAbstract ==
  /\ pc = "abstract" /\ impl = "extractors"
  /\ metadata' = [metadata EXCEPT !.abstrak = _extract_abstract(lines)]
  /\ src' = [src EXCEPT !.abstract = AbstractSource(lines)]
  /\ pc' = "keywords"
  /\ UNCHANGED <<text, impl, lines>>
  /\ UNCHANGED <<worker_vars, server_vars>>

\* metadata["kata_kunci"] = _extract_keywords(lines); return metadata
ExtractKeywords ==
  /\ pc = "keywords" /\ impl = "extractors"
  /\ metadata' = [metadata EXCEPT !.kata_kunci = _extract_keywords(lines)]
  /\ src' = [src EXCEPT !.keywords = KeywordsSource(lines)]
  /\ pc' = "done"
  /\ UNCHANGED <<text, impl, lines>>
  /\ UNCHANGED <<worker_vars, server_vars>>

\* api.py: the joint title/author scan and "Process title"
ApiTitle ==
  /\ pc = "title" /\ impl = "api"
  /\ metadata' = [metadata EXCEPT !.judul = api_title(lines)]
  /\ src' = [src EXCEPT !.title = TitleScan(lines).title_lines]
  /\ pc' = "authors"
  /\ UNCHANGED <<text, impl, lines>>
  /\ UNCHANGED <<worker_vars, server_vars>>

\* api.py: "Process authors" and the alternative approach
ApiAuthors ==
  /\ pc = "authors" /\ impl = "api"
  /\ metadata' = [metadata EXCEPT !.penulis = api_authors(lines, metadata.judul)]
  /\ src' = [src EXCEPT !.authors = api_author_source(lines, metadata.judul),
                         !.strategy = api_author_strategy(lines, metadata.judul)]
  /\ pc' = "abstract"
  /\ UNCHANGED <<text, impl, lines>>
  /\ UNCHANGED <<worker_vars, server_vars>>

\* api.py: "Extract Abstract"
ApiAbstract ==
  /\ pc = "abstract" /\ impl = "api"
  /\ metadata' = [metadata EXCEPT !.abstrak = api_abstract(lines)]
  /\ src' = [src EXCEPT !.abstract = api_abstract_source(lines)]
  /\ pc' = "keywords"
  /\ UNCHANGED <<text, impl, lines>>
  /\ UNCHANGED <<worker_vars, server_vars>>

\* api.py: "Extract Keywords"; return metadata
ApiKeywords ==
  /\ pc = "keywords" /\ impl = "api"
  /\ metadata' = [metadata EXCEPT !.kata_kunci = api_keywords(lines)]
  /\ src' = [src EXCEPT !.keywords = api_keywords_source(lines)]
  /\ pc' = "done"
  /\ UNCHANGED <<text, impl, lines>>
  /\ UNCHANGED <<worker_vars, server_vars>>

Next ==
  \/ CleanLines
  \/ ExtractTitle
  \/ ExtractAuthors
  \/ ExtractAbstract
  \/ ExtractKeywords
  \/ ApiTitle
  \/ ApiAuthors
  \/ ApiAbstract
  \/ ApiKeywords

Spec == Init /\ [][Next]_vars

(***************************************************************************)
(* Worker threads that call extract_metadata of extractors.py, side by     *)
(* side and one call after another.  worker[w] is the call thread w is in: *)
(* its argument text and the statement it has reached.  frame[f] holds the *)
(* local variables lines, cleaned_lines and metadata of the call that runs *)
(* in frame f; a finished call leaves its values behind until the next     *)
(* call assigns them.  returned lists the finished calls in the order of   *)
(* their return, each with its argument and its result.                    *)
(***************************************************************************)
Workers == {"w1", "w2"}
\* the largest number of calls made in one behaviour
MaxCalls == 3
CallDocuments ==
  {TextOf(<<L_page, L_study, L_sig_spaced, L_abstrak, L_body_one, L_kw_iot>>),
   TextOf(<<L_deep_nets, L_sig_repeat, L_program, L_abstract_inline, L_kw_dan>>)}
IdleWorker == [pc |-> "idle", text |-> <<>>]
EmptyFrame == [lines |-> <<>>, cleaned_lines |-> <<>>, metadata |-> EmptyMetadata]
\* the threads inside a call
Running == {w \in Workers : worker[w].pc # "idle"}

\* lines, cleaned_lines and metadata as variables of the module, one frame for all calls
FrameOf_Shared(w) == "w1"
\* lines, cleaned_lines and metadata are local variables: every call has a frame of its own
FrameOf(w) == w
\* a list that keeps the entries of the previous call
NewList_Kept(previous) == previous
\* cleaned_lines = []
NewList(previous) == <<>>

InitWorkers ==
  /\ worker = [w \in Workers |-> IdleWorker]
  /\ frame = [w \in Workers |-> EmptyFrame]
  /\ returned = <<>>
  /\ NoCall
  /\ NoServer

\* the call: lines = [l.strip() ...]; metadata = {...}
WorkerCall(w) ==
  /\ worker[w].pc = "idle"
  /\ Len(returned) + Cardinality(Running) < MaxCalls
  /\ \E t \in CallDocuments :
       /\ worker' = [worker EXCEPT ![w] = [pc |-> "clean", text |-> t]]
       /\ frame' = [frame EXCEPT ![FrameOf(w)].lines = StrippedLines(t),
                                 ![FrameOf(w)].metadata = EmptyMetadata]
  /\ UNCHANGED <<returned, call_vars, server_vars>>

\* cleaned_lines = []; the cleaning loop; lines = cleaned_lines
WorkerClean(w) ==
  /\ worker[w].pc = "clean"
  /\ LET f == FrameOf(w)
         cleaned == NewList(frame[f].cleaned_lines) \o SelectSeq(frame[f].lines, KeepLine)
     IN  frame' = [frame EXCEPT ![f].cleaned_lines = cleaned, ![f].lines = cleaned]
  /\ worker' = [worker EXCEPT ![w].pc = "title"]
  /\ UNCHANGED <<returned, call_vars, server_vars>>

\* metadata["judul"] = _extract_title(lines)
WorkerTitle(w) ==
  /\ worker[w].pc = "title"
  /\ LET f == FrameOf(w)
     IN  frame' = [frame EXCEPT ![f].metadata.judul = _extract_title(frame[f].lines)]
  /\ worker' = [worker EXCEPT ![w].pc = "authors"]
  /\ UNCHANGED <<returned, call_vars, server_vars>>

\* metadata["penulis"] = _extract_authors(lines)
WorkerAuthors(w) ==
  /\ worker[w].pc = "authors"
  /\ LET f == FrameOf(w)
     IN  frame' = [frame EXCEPT ![f].metadata.penulis = _extract_authors(frame[f].lines)]
  /\ worker' = [worker EXCEPT ![w].pc = "abstract"]
  /\ UNCHANGED <<returned, call_vars, server_vars>>

\* metadata["abstrak"] = _extract_abstract(lines)
WorkerAbstract(w) ==
  /\ worker[w].pc = "abstract"
  /\ LET f == FrameOf(w)
     IN  frame' = [frame EXCEPT ![f].metadata.abstrak = _extract_abstract(frame[f].lines)]
  /\ worker' = [worker EXCEPT ![w].pc = "keywords"]
  /\ UNCHANGED <<returned, call_vars, server_vars>>

\* metadata["kata_kunci"] = _extract_keywords(lines)
WorkerKeywords(w) ==
  /\ worker[w].pc = "keywords"
  /\ LET f == FrameOf(w)
     IN  frame' = [frame EXCEPT ![f].metadata.kata_kunci = _extract_keywords(frame[f].lines)]
  /\ worker' = [worker EXCEPT ![w].pc = "return"]
  /\ UNCHANGED <<returned, call_vars, server_vars>>

\* return metadata
WorkerReturn(w) ==
  /\ worker[w].pc = "return"
  /\ returned' = Append(returned, [text |-> worker[w].text,
                                    metadata |-> frame[FrameOf(w)].metadata])
  /\ worker' = [worker EXCEPT ![w] = IdleWorker]
  /\ UNCHANGED <<frame, call_vars, server_vars>>

NextWorkers ==
  \E w \in Workers :
     \/ WorkerCall(w)
     \/ WorkerClean(w)
     \/ WorkerTitle(w)
     \/ WorkerAuthors(w)
     \/ WorkerAbstract(w)
     \/ WorkerKeywords(w)
     \/ WorkerReturn(w)

WorkersSpec == InitWorkers /\ [][NextWorkers]_vars

(***************************************************************************)
(* The endpoints of api.py that read and change the BERKAS folder.         *)
(* folder maps a file name to its entry: exists tells whether the file is  *)
(* in the folder now (an entry with exists = FALSE is a file that was      *)
(* removed), text is what extract_text_from_pdf yields on the file.        *)
(* handler[h] is the request thread h serves: the endpoint, its parameter, *)
(* the statement reached, its local variables and the status it answered   *)
(* with.  saw records what the folder held for the name when the handler   *)
(* tested os.path.exists, reads counts its calls of extract_text_from_pdf. *)
(***************************************************************************)
Handlers == {"h1", "h2"}
W_dot_pdf == <<".", "p", "d", "f">>
F_paper == <<"p", "a", "p", "e", "r">>
F_paper_pdf == F_paper \o W_dot_pdf
\* the file names requests carry
RequestNames == {F_paper, F_paper_pdf}
\* the texts of the uploaded files: a scanned PDF without text and a paper
PdfTexts == {<<>>, TextOf(<<L_study, L_sig_spaced, L_abstrak, L_body_one, L_kw_iot>>)}
IdleHandler ==
  [op |-> "none", filename |-> <<>>, pc |-> "idle", contents |-> <<>>, text |-> <<>>,
   metadata |-> EmptyMetadata, status |-> 0, saw |-> "nothing", reads |-> 0]
\* handler h is free to take a request
Free(h) == handler[h].pc \in {"idle", "done"}

\* str.endswith
EndsWith(s, suffix) ==
  Len(s) >= Len(suffix) /\ SubSeq(s, Len(s) - Len(suffix) + 1, Len(s)) = suffix
\* if not filename.endswith(".pdf"): filename += ".pdf"
PdfName(filename) == IF EndsWith(filename, W_dot_pdf) THEN filename ELSE filename \o W_dot_pdf
\* a test that finds every path
Exists_Always(fs, name) == TRUE
\* os.path.exists(path)
Exists(fs, name) == name \in DOMAIN fs /\ fs[name].exists
\* extract_text_from_pdf(path): the text of the file, "" when opening or reading it fails
extract_text_from_pdf(fs, name) == IF Exists(fs, name) THEN fs[name].text ELSE <<>>
\* what the folder holds for a name
Held(fs, name) ==
  IF name \notin DOMAIN fs THEN "nothing" ELSE IF fs[name].exists THEN "file" ELSE "removed"
\* open(file_path, "wb"); f.write(contents)
WriteFile(fs, name, contents) ==
  [n \in DOMAIN fs \cup {name} |->
     IF n = name THEN [exists |-> TRUE, text |-> contents] ELSE fs[n]]
\* os.remove(path)
RemoveFile(fs, name) == [fs EXCEPT ![name].exists = FALSE]
\* the stored files and their contents
StoredFiles(fs) == [n \in {m \in DOMAIN fs : fs[m].exists} |-> fs[n].text]
\* the status the client gets when HTTPException(status_code) is raised inside the try
\* block: "except Exception as e" catches it and raises HTTPException(500)
RaisedInTry(status_code) == 500

InitServer ==
  /\ folder = <<>>
  /\ handler = [h \in Handlers |-> IdleHandler]
  /\ NoCall
  /\ NoWorkers

\* GET /extract/{filename} arrives
ReceiveExtract(h) ==
  /\ Free(h)
  /\ \E name \in RequestNames :
       handler' = [handler EXCEPT ![h] =
                     [IdleHandler EXCEPT !.op = "extract_single", !.filename = name,
                                         !.pc = "check"]]
  /\ UNCHANGED <<folder, call_vars, worker_vars>>

\* extract_single: the name, the path and the test os.path.exists(path)
ExtractSingleCheck(h) ==
  /\ handler[h].op = "extract_single" /\ handler[h].pc = "check"
  /\ LET name == PdfName(handler[h].filename)
     IN  handler' = [handler EXCEPT
           ![h].filename = name,
           ![h].saw = Held(folder, name),
           ![h].pc = IF Exists(folder, name) THEN "read" ELSE "done",
           ![h].status = IF Exists(folder, name) THEN 0 ELSE 404]
  /\ UNCHANGED <<folder, call_vars, worker_vars>>

\* text = extract_text_from_pdf(path); if not text: raise HTTPException(422)
ExtractSingleRead(h) ==
  /\ handler[h].op = "extract_single" /\ handler[h].pc = "read"
  /\ LET text_read == extract_text_from_pdf(folder, handler[h].filename)
     IN  handler' = [handler EXCEPT
           ![h].text = text_read,
           ![h].reads = handler[h].reads + 1,
           ![h].pc = IF text_read = <<>> THEN "done" ELSE "extract",
           ![h].status = IF text_read = <<>> THEN RaisedInTry(422) ELSE 0]
  /\ UNCHANGED <<folder, call_vars, worker_vars>>

\* meta = extract_metadata(text, filename)
ExtractSingleMetadata(h) ==
  /\ handler[h].op = "extract_single" /\ handler[h].pc = "extract"
  /\ handler' = [handler EXCEPT ![h].metadata = api_extract_metadata(handler[h].text),
                                ![h].pc = "stat"]
  /\ UNCHANGED <<folder, call_vars, worker_vars>>

\* meta["file_size"] = os.path.getsize(path), an OSError when the file is gone; return meta
ExtractSingleStat(h) ==
  /\ handler[h].op = "extract_single" /\ handler[h].pc = "stat"
  /\ handler' = [handler EXCEPT
       ![h].pc = "done",
       ![h].status = IF Exists(folder, handler[h].filename) THEN 200 ELSE 500]
  /\ UNCHANGED <<folder, call_vars, worker_vars>>

\* DELETE /delete/{filename} arrives
ReceiveDelete(h) ==
  /\ Free(h)
  /\ \E name \in RequestNames :
       handler' = [handler EXCEPT ![h] =
                     [IdleHandler EXCEPT !.op = "delete_file", !.filename = name,
                                         !.pc = "check"]]
  /\ UNCHANGED <<folder, call_vars, worker_vars>>

\* delete_file: the name, the path and the test os.path.exists(path)
DeleteCheck(h) ==
  /\ handler[h].op = "delete_file" /\ handler[h].pc = "check"
  /\ LET name == PdfName(handler[h].filename)
     IN  handler' = [handler EXCEPT
           ![h].filename = name,
           ![h].saw = Held(folder, name),
           ![h].pc = IF Exists(folder, name) THEN "remove" ELSE "done",
           ![h].status = IF Exists(folder, name) THEN 0 ELSE 404]
  /\ UNCHANGED <<folder, call_vars, worker_vars>>

\* os.remove(path), an OSError when the file is gone
DeleteRemove(h) ==
  /\ handler[h].op = "delete_file" /\ handler[h].pc = "remove"
  /\ IF Exists(folder, handler[h].filename)
     THEN /\ folder' = RemoveFile(folder, handler[h].filename)
          /\ handler' = [handler EXCEPT ![h].pc = "done", ![h].status = 200]
     ELSE /\ folder' = folder
          /\ handler' = [handler EXCEPT ![h].pc = "done", ![h].status = 500]
  /\ UNCHANGED <<call_vars, worker_vars>>

\* POST /upload arrives with a file
ReceiveUpload(h) ==
  /\ Free(h)
  /\ \E name \in RequestNames, contents \in PdfTexts :
       handler' = [handler EXCEPT ![h] =
                     [IdleHandler EXCEPT !.op = "upload_pdf", !.filename = name,
                                         !.contents = contents, !.pc = "check"]]
  /\ UNCHANGED <<folder, call_vars, worker_vars>>

\* upload_pdf: if not file.filename.endswith(".pdf"): raise HTTPException(400)
UploadCheck(h) ==
  /\ handler[h].op = "upload_pdf" /\ handler[h].pc = "check"
  /\ handler' = [handler EXCEPT
       ![h].pc = IF EndsWith(handler[h].filename, W_dot_pdf) THEN "write" ELSE "done",
       ![h].status = IF EndsWith(handler[h].filename, W_dot_pdf) THEN 0 ELSE 400]
  /\ UNCHANGED <<folder, call_vars, worker_vars>>

\* contents = await file.read(); the file is written.  The coroutine runs on the event
\* loop from here to its return, so no other upload is between its write and its return.
UploadWrite(h) ==
  /\ handler[h].op = "upload_pdf" /\ handler[h].pc = "write"
  /\ \A g \in Handlers \ {h} :
       ~(handler[g].op = "upload_pdf" /\ handler[g].pc \in {"read", "extract"})
  /\ folder' = WriteFile(folder, handler[h].filename, handler[h].contents)
  /\ handler' = [handler EXCEPT ![h].pc = "read"]
  /\ UNCHANGED <<call_vars, worker_vars>>

\* the try block raises before the file is complete: await file.read() raises and the
\* folder is as it was, or open(file_path, "wb") has created or emptied the file and
\* f.write raises.  The except clause then removes file_path when it exists and raises
\* HTTPException(500).
UploadFails(h) ==
  /\ handler[h].op = "upload_pdf" /\ handler[h].pc = "write"
  /\ \A g \in Handlers \ {h} :
       ~(handler[g].op = "upload_pdf" /\ handler[g].pc \in {"read", "extract"})
  /\ \E raised \in {"read", "write"} :
       LET name == handler[h].filename
           reached == IF raised = "read" THEN folder ELSE WriteFile(folder, name, <<>>)
       IN  folder' = IF Exists(reached, name) THEN RemoveFile(reached, name) ELSE reached
  /\ handler' = [handler EXCEPT ![h].pc = "done", ![h].status = 500]
  /\ UNCHANGED <<call_vars, worker_vars>>

\* text = extract_text_from_pdf(file_path)
UploadRead(h) ==
  /\ handler[h].op = "upload_pdf" /\ handler[h].pc = "read"
  /\ handler' = [handler EXCEPT
       ![h].text = extract_text_from_pdf(folder, handler[h].filename),
       ![h].reads = handler[h].reads + 1,
       ![h].pc = "extract"]
  /\ UNCHANGED <<folder, call_vars, worker_vars>>

\* meta = extract_metadata(text, file.filename); return
UploadMetadata(h) ==
  /\ handler[h].op = "upload_pdf" /\ handler[h].pc = "extract"
  /\ handler' = [handler EXCEPT ![h].metadata = api_extract_metadata(handler[h].text),
                                ![h].pc = "done", ![h].status = 200]
  /\ UNCHANGED <<folder, call_vars, worker_vars>>

NextServer ==
  \E h \in Handlers :
     \/ ReceiveExtract(h)
     \/ ExtractSingleCheck(h)
     \/ ExtractSingleRead(h)
     \/ ExtractSingleMetadata(h)
     \/ ExtractSingleStat(h)
     \/ ReceiveDelete(h)
     \/ DeleteCheck(h)
     \/ DeleteRemove(h)
     \/ ReceiveUpload(h)
     \/ UploadCheck(h)
     \/ UploadWrite(h)
     \/ UploadFails(h)
     \/ UploadRead(h)
     \/ UploadMetadata(h)

ServerSpec == InitServer /\ [][NextServer]_vars

(***************************************************************************)
(* GET /search of api.py.  folder is the BERKAS folder as above; handler   *)
(* is the one request: its parameters keyword and limit, the statement     *)
(* reached, the list os.listdir returned, the position of the loop in it,  *)
(* and the locals results and files_checked.                               *)
(***************************************************************************)
K_iot == <<"i", "o", "t">>
K_IoT == <<"I", "o", "T">>
K_cloud == <<"c", "l", "o", "u", "d">>
\* "iot cloud", "IoT iot", "iot iot cloud iot"
T_once == K_iot \o <<" ">> \o K_cloud
T_twice == K_IoT \o <<" ">> \o K_iot
T_thrice == K_iot \o <<" ">> \o K_iot \o <<" ">> \o K_cloud \o <<" ">> \o K_iot
F_a_pdf == <<"a">> \o W_dot_pdf
F_b_pdf == <<"b">> \o W_dot_pdf
F_c_pdf == <<"c">> \o W_dot_pdf
F_notes_txt == <<"n", "o", "t", "e", "s", ".", "t", "x", "t">>
SearchNames == {F_a_pdf, F_b_pdf, F_c_pdf, F_notes_txt}
\* the folders searched: three PDFs and a file that is not a PDF
SearchFolders ==
  {[n \in SearchNames |->
      [exists |-> TRUE,
       text |-> IF n = F_a_pdf THEN a ELSE IF n = F_b_pdf THEN b ELSE IF n = F_c_pdf THEN c
                ELSE T_thrice]] :
     a \in {T_once, T_twice}, b \in {T_once, T_thrice, K_cloud}, c \in {T_twice, K_cloud}}
SearchKeywords == {K_IoT, K_cloud}
\* limit is None
NoLimit == 0
\* the largest limit a request carries
MaxLimit == 2
IdleSearch ==
  [op |-> "none", pc |-> "idle", keyword |-> <<>>, limit |-> NoLimit, listing |-> <<>>,
   i |-> 0, results |-> <<>>, files_checked |-> 0, status |-> 0]
\* the orders in which os.listdir can return the names of the folder
Listings(fs) ==
  LET names == {n \in DOMAIN fs : fs[n].exists}
  IN  {l \in [1..Cardinality(names) -> names] : \A p, q \in DOMAIN l : p # q => l[p] # l[q]}
\* text.count(word): the occurrences of word from the left, without overlap
RECURSIVE Count(_, _)
Count(s, word) ==
  LET p == First({k \in 1..(Len(s) - Len(word) + 1) : StartsWithAt(s, k, word)})
  IN  IF p = 0 THEN 0 ELSE 1 + Count(From(s, p + Len(word)), word)
\* the number of entries of results that come before entry k after
\* results.sort(key=relevance_score, reverse=True): the sort is stable
Before(results, k) ==
  Cardinality({j \in 1..Len(results) :
                 \/ results[j].relevance_score > results[k].relevance_score
                 \/ results[j].relevance_score = results[k].relevance_score /\ j < k})
Sorted(results) ==
  [r \in 1..Len(results) |->
     results[CHOOSE k \in 1..Len(results) : Before(results, k) = r - 1]]

InitSearch ==
  /\ folder \in SearchFolders
  /\ handler = IdleSearch
  /\ NoCall
  /\ NoWorkers

\* GET /search?keyword=...&limit=... arrives
ReceiveSearch ==
  /\ handler.pc = "idle"
  /\ \E keyword \in SearchKeywords, limit \in {NoLimit} \cup 1..MaxLimit :
       handler' = [IdleSearch EXCEPT !.op = "search", !.keyword = keyword, !.limit = limit,
                                     !.pc = "list"]
  /\ UNCHANGED <<folder, call_vars, worker_vars>>

\* os.listdir(FOLDER): the names in an order the file system chooses
SearchList ==
  /\ handler.op = "search" /\ handler.pc = "list"
  /\ \E listing \in Listings(folder) :
       handler' = [handler EXCEPT !.listing = listing, !.i = 1, !.pc = "scan"]
  /\ UNCHANGED <<folder, call_vars, worker_vars>>

\* one iteration of the loop over the names, with its break
SearchScan ==
  /\ handler.op = "search" /\ handler.pc = "scan"
  /\ \E filename \in {handler.listing[handler.i]} :
     \E text_read \in {extract_text_from_pdf(folder, filename)} :
     \E match \in {EndsWith(filename, W_dot_pdf)
                     /\ Contains(ToLower(text_read), ToLower(handler.keyword))} :
     \E metadata_read \in {IF match THEN api_extract_metadata(text_read) ELSE EmptyMetadata} :
       LET meta == [file |-> filename,
                    relevance_score |-> Count(ToLower(text_read), ToLower(handler.keyword)),
                    metadata |-> metadata_read]
           results == IF match THEN Append(handler.results, meta) ELSE handler.results
           break == match /\ handler.limit # NoLimit /\ Len(results) >= handler.limit
       IN  handler' = [handler EXCEPT
             !.files_checked = IF EndsWith(filename, W_dot_pdf) THEN handler.files_checked + 1
                               ELSE handler.files_checked,
             !.results = results,
             !.i = handler.i + 1,
             !.pc = IF break \/ handler.i = Len(handler.listing) THEN "sort" ELSE "scan"]
  /\ UNCHANGED <<folder, call_vars, worker_vars>>

\* results.sort(...); return
SearchSort ==
  /\ handler.op = "search" /\ handler.pc = "sort"
  /\ handler' = [handler EXCEPT !.results = Sorted(handler.results), !.pc = "done",
                                !.status = 200]
  /\ UNCHANGED <<folder, call_vars, worker_vars>>

NextSearch ==
  \/ ReceiveSearch
  \/ SearchList
  \/ SearchScan
  \/ SearchSort

SearchSpec == InitSearch /\ [][NextSearch]_vars

(***************************************************************************)
(* Properties of extract_metadata, stated on the finished call             *)
(* (pc = "done") against the argument text, the cleaned lines and the      *)
(* returned metadata.                                                      *)
(***************************************************************************)
W_JaneDoe == <<"J", "a", "n", "e", "D", "o", "e">>
W_JohnSmith == <<"J", "o", "h", "n", "S", "m", "i", "t", "h">>
W_boundary_title ==
  <<"A", " ", "S", "t", "u", "d", "y", " ", "o", "f", " ", "S", "o", "m", "e", "t", "h", "i", "n",
    "g", " ", "I", "n", "t", "e", "r", "e", "s", "t", "i", "n", "g", " ", "S", "y", "s", "t", "e",
    "m", "s">>
\* the entries of the comma-joined authors string
AuthorEntries(penulis) ==
  IF penulis = None THEN <<>>
  ELSE LET parts == Split(penulis, ",") IN [k \in 1..Len(parts) |-> Strip(parts[k])]
\* the elements of a sequence
Range(seq) == {seq[k] : k \in 1..Len(seq)}
\* the cleaned lines of the boundary example
BoundaryExample == <<L_study, L_systems, L_sig_joined, L_university>>

\* every raw line of t is, after stripping, empty, digits and spaces only, a page marker
\* or at most two characters long
AllLinesDropped(t) ==
  LET raw == Split(t, NL)
  IN  \A k \in 1..Len(raw) :
        LET l == Strip(raw[k])
        IN  \/ l = <<>>
            \/ \A i \in 1..Len(l) : l[i] \in Digit \cup Whitespace
            \/ PageMarker(l)
            \/ Len(l) <= 2

\* C1: when the input is empty or every line of it is dropped by the normalizer (blank,
\* digits only, a "Page <number>" marker, or at most two characters), the call returns
\* title, authors and abstract absent and an empty keywords list.
C1_DegenerateInput ==
  (pc = "done" /\ AllLinesDropped(text)) => metadata = EmptyMetadata
\* a finished call on a non-empty text all of whose lines were dropped
C1_Witness ==
  /\ pc = "done"
  /\ text # <<>>
  /\ AllLinesDropped(text)
  /\ lines = <<>>
  /\ metadata = EmptyMetadata

\* no line among the first 50 cleaned lines matches the author-signature pattern
NoSignatureInWindow(ls) ==
  \A i \in Window(ls, TitleScanLines) : ~HasAuthorSignature(ls[i])
\* the number of leading lines the fallback of the implementation can take names from
FallbackReach == IF impl = "extractors" THEN AltScanLines ELSE AltScanLines + ApiAuthorLookahead

\* C2 as stated: when no signature line occurs within the first 50 cleaned lines, the
\* primary strategy yields no authors and authors is absent, whatever comes later.
C2_AbsentWithoutSignature ==
  (pc = "done" /\ NoSignatureInWindow(lines)) => metadata.penulis = None
\* C2: when no signature line occurs within the first 50 cleaned lines, the primary
\* strategy yields nothing, however many signature lines come later; authors is then
\* absent or holds the spaced capitalised names of one single line, which lies within the
\* reach of the fallback (the first 60 cleaned lines in extractors.py, at most 5 lines
\* after the title line and within the first 65 in api.py) and starts with a capital.
C2_OnlyFallbackWithoutSignature ==
  (pc = "done" /\ NoSignatureInWindow(lines)) =>
     /\ src.strategy # "primary"
     /\ \/ metadata.penulis = None /\ src.authors = <<>>
        \/ \E i \in Window(lines, FallbackReach) :
             /\ src.authors = <<i>>
             /\ StartsCapitalized(lines[i])
             /\ metadata.penulis = Join(W_comma_sp, Take(SpacedNames(lines[i]), MaxAuthors))
\* a finished call whose only signature line lies after the first 50 cleaned lines
C2_Witness ==
  /\ pc = "done"
  /\ NoSignatureInWindow(lines)
  /\ \E i \in (TitleScanLines + 1)..Len(lines) : ConfirmedAuthorLine(lines[i])
  /\ metadata.penulis = None

\* the lines that are abstract headers: the keyword alone or followed by a dash or colon
AbstractHeaders(ls) ==
  {i \in 1..Len(ls) : StandaloneAbstractHeader(ls[i]) \/ AbstractHeaderWith(ls[i], DashOrColon)}

\* C3: when a second abstract header follows the first abstract's body, the abstract is
\* built only from the lines between the first header and the second: the second header
\* line and the lines after it contribute nothing.
C3_StopsAtSecondHeader ==
  (pc = "done" /\ Cardinality(AbstractHeaders(lines)) >= 2) =>
     LET h1 == First(AbstractHeaders(lines))
         h2 == First(AbstractHeaders(lines) \ {h1})
     IN  \A k \in 1..Len(src.abstract) : h1 <= src.abstract[k] /\ src.abstract[k] < h2

\* C4: for the cleaned lines "A Study of Something", "Interesting Systems",
\* "JaneDoe1, JohnSmith2", "Universitas Contoh" the authors are taken from the third line
\* and include JaneDoe and JohnSmith.
C4_BoundaryAuthors ==
  (pc = "done" /\ lines = BoundaryExample) =>
     {W_JaneDoe, W_JohnSmith} \subseteq Range(AuthorEntries(metadata.penulis))

\* a line the title scan accepts as a title line
TitleEligible(line) ==
  /\ ~ContainsAny(ToLower(line), skip_words)
  /\ Len(line) >= 5
  /\ ~IsDigitStr(line)
  /\ ~HasAuthorSignature(line)
  /\ ~MonthYear(line)
\* a line the title scan accepts as the author line
AuthorLineInScan(line) ==
  /\ ~ContainsAny(ToLower(line), skip_words)
  /\ Len(line) >= 5
  /\ ConfirmedAuthorLine(line)
\* the numbers k for which lines 1..k are title lines and line k+1 is the author line
TitleBlocksBeforeAuthor(ls) ==
  {k \in 0..(TitleScanLines - 1) :
     /\ k + 1 <= Len(ls)
     /\ \A i \in 1..k : TitleEligible(ls[i])
     /\ AuthorLineInScan(ls[k + 1])}

\* C5: when the cleaned lines start with title lines t1..tk followed by a confirmed
\* author-signature line, the title is t1..tk joined by single spaces (whitespace runs
\* collapsed, trailing superscripts removed) and contains nothing from the signature line
\* or from any later line; for the boundary example it is
\* "A Study of Something Interesting Systems".
C5_TitleEndsAtAuthorLine ==
  (pc = "done") =>
     /\ \A k \in TitleBlocksBeforeAuthor(lines) :
          /\ src.title = [i \in 1..k |-> i]
          /\ metadata.judul =
               IF k = 0 THEN None
               ELSE Strip(StripTrailingSuperscripts(Strip(CollapseSpaces(
                      Join(<<" ">>, SubSeq(lines, 1, k))))))
     /\ lines = BoundaryExample => metadata.judul = W_boundary_title
\* a finished call on the boundary example
C5_Witness ==
  /\ pc = "done"
  /\ lines = BoundaryExample
  /\ TitleBlocksBeforeAuthor(lines) = {2}
  /\ metadata.judul = W_boundary_title

\* C6: whenever authors is present, none of its comma-separated entries is affiliation
\* text (universitas, fakultas, program studi), an email address or a bare numeric marker.
C6_AuthorsAreNames ==
  (pc = "done" /\ metadata.penulis # None) =>
     \A e \in Range(AuthorEntries(metadata.penulis)) :
        /\ ~ContainsAny(ToLower(e), {W_universitas, W_fakultas, W_program_studi})
        /\ ~Contains(e, W_at_sign)
        /\ ~(e # <<>> /\ \A i \in 1..Len(e) : e[i] \in Digit \cup Superscript)

\* C7: whenever authors is present, it holds at most 10 comma-separated names and no name
\* twice.
C7_AuthorsDistinct ==
  (pc = "done" /\ metadata.penulis # None) =>
     LET names == AuthorEntries(metadata.penulis)
     IN  /\ Len(names) <= MaxAuthors
         /\ \A i, j \in 1..Len(names) : i # j => names[i] # names[j]

\* C8: in extractors.py, when a line after the abstract header starts with a keywords
\* header followed by a dash or colon, neither that line nor any later line is part of
\* the abstract.
C8_AbstractEndsAtKeywords ==
  (pc = "done" /\ impl = "extractors") =>
     \A k \in 1..Len(lines) :
        (/\ AbstractHeaders(lines) # {}
         /\ k > First(AbstractHeaders(lines))
         /\ KeywordsHeaderAtStart(lines[k])) =>
           /\ \A i \in 1..Len(src.abstract) : src.abstract[i] < k
           /\ metadata.abstrak # None => ~Contains(metadata.abstrak, lines[k])
\* a finished call whose abstract stops at a keywords header that has lines after it
C8_Witness ==
  /\ pc = "done" /\ impl = "extractors"
  /\ metadata.abstrak # None
  /\ \E k \in 1..Len(lines) :
       /\ k > First(AbstractHeaders(lines))
       /\ KeywordsHeaderAtStart(lines[k])
       /\ k - 1 \in Range(src.abstract)
       /\ \E j \in (k + 1)..Len(lines) : Len(lines[j]) > MinAbstractLine

\* C9 as stated: in extractors.py, when the abstract body is followed by the line
\* "Kata Kunci: x, y, z", keywords is the list x, y, z.
C9_KeywordsXYZ ==
  (/\ pc = "done" /\ impl = "extractors"
   /\ \E k \in 2..Len(lines) : lines[k] = L_kw_xyz /\ k - 1 \in Range(src.abstract)) =>
     metadata.kata_kunci = << <<"x">>, <<"y">>, <<"z">> >>
\* the text of a line after its leading keywords header, separator and spaces
AfterHeader(line) ==
  LET sep == First({i \in 1..Len(line) : line[i] \in DashOrColon})
  IN  Strip(From(line, sep + 1))
\* the comma-separated items of a section, spaces and trailing periods stripped
CommaItems(section) ==
  LET parts == Split(RStripChars(section, {"."}), ",")
  IN  [k \in 1..Len(parts) |-> RStripChars(Strip(parts[k]), {".", " "})]
\* C9: in extractors.py, when the first keywords header line starts with the header, no
\* continuation line is appended and the line holds no semicolon or conjunction, keywords
\* is the list of the comma-separated items after the header that are 3 to 99 characters
\* long and have at most 5 words, in order, cut to 10; for "Kata Kunci: x, y, z" after an
\* abstract body the list is empty, since each item is one character long.
C9_KeywordsFromHeaderLine ==
  (pc = "done" /\ impl = "extractors") =>
     /\ \A k \in 1..Len(lines) :
          (/\ KeywordsHeaderAtStart(lines[k])
           /\ \A j \in 1..(k - 1) : ~KeywordsHeaderInline(lines[j])
           /\ src.keywords = <<k>>
           /\ ~Contains(lines[k], <<";">>)
           /\ ~Contains(lines[k], W_sp_dan_sp)
           /\ ~Contains(lines[k], W_sp_and_sp)) =>
             metadata.kata_kunci =
               Take(SelectSeq(CommaItems(AfterHeader(lines[k])),
                              LAMBDA w : Len(w) >= 3 /\ Len(w) <= 99 /\ WordCount(w) <= 5),
                    MaxKeywords)
     /\ (\E k \in 2..Len(lines) : lines[k] = L_kw_xyz /\ k - 1 \in Range(src.abstract)) =>
          metadata.kata_kunci = <<>>
\* a finished call on an abstract body followed by "Kata Kunci: x, y, z"
C9_Witness ==
  /\ pc = "done" /\ impl = "extractors"
  /\ \E k \in 2..Len(lines) : lines[k] = L_kw_xyz /\ k - 1 \in Range(src.abstract)
  /\ src.keywords = <<Len(lines)>>
  /\ metadata.kata_kunci = <<>>

\* C10: keywords holds at most 10 entries, and every entry is longer than 2 and shorter
\* than 100 characters and has at most 5 space-separated words.
C10_KeywordsShape ==
  (pc = "done") =>
     /\ Len(metadata.kata_kunci) <= MaxKeywords
     /\ \A k \in 1..Len(metadata.kata_kunci) :
          LET w == metadata.kata_kunci[k]
          IN  Len(w) > 2 /\ Len(w) < MaxKeywordLen /\ WordCount(w) <= MaxKeywordWords

(***************************************************************************)
(* Properties of the keywords list and of the cleaned lines.               *)
(***************************************************************************)
W_IoT == <<"I", "o", "T">>
W_smart_home == <<"s", "m", "a", "r", "t", " ", "h", "o", "m", "e">>
W_automation == <<"a", "u", "t", "o", "m", "a", "t", "i", "o", "n">>
W_machine_learning ==
  <<"m", "a", "c", "h", "i", "n", "e", " ", "l", "e", "a", "r", "n", "i", "n", "g">>
W_deep_learning == <<"d", "e", "e", "p", " ", "l", "e", "a", "r", "n", "i", "n", "g">>

\* C11: no string occurs twice in the keywords list a call returns.
C11_KeywordsDistinct ==
  (pc = "done") =>
     \A i, j \in 1..Len(metadata.kata_kunci) :
        i # j => metadata.kata_kunci[i] # metadata.kata_kunci[j]

\* line k is the only line the keywords section was built from
OnlyKeywordsLine(k) == k \in 1..Len(lines) /\ src.keywords = <<k>>
\* C12: the conjunctions " dan " and " and " separate keywords as commas do: the section
\* "IoT dan smart home dan automation" yields IoT, smart home, automation, the section
\* "machine learning and deep learning" yields two entries, and no returned keyword holds
\* one of the two conjunctions.
C12_ConjunctionsSeparate ==
  (pc = "done") =>
     /\ \A k \in 1..Len(lines) :
          (OnlyKeywordsLine(k) /\ lines[k] = L_kw_dan) =>
             metadata.kata_kunci = <<W_IoT, W_smart_home, W_automation>>
     /\ \A k \in 1..Len(lines) :
          (OnlyKeywordsLine(k) /\ lines[k] = L_kw_and) =>
             metadata.kata_kunci = <<W_machine_learning, W_deep_learning>>
     /\ \A i \in 1..Len(metadata.kata_kunci) :
          /\ ~Contains(metadata.kata_kunci[i], W_sp_dan_sp)
          /\ ~Contains(metadata.kata_kunci[i], W_sp_and_sp)
\* a finished call whose keywords section is "IoT dan smart home dan automation"
C12_Witness ==
  /\ pc = "done"
  /\ \E k \in 1..Len(lines) : OnlyKeywordsLine(k) /\ lines[k] = L_kw_dan
  /\ metadata.kata_kunci = <<W_IoT, W_smart_home, W_automation>>

\* the raw lines of a text, each trimmed
TrimmedRawLines(t) ==
  LET raw == Split(t, NL) IN [k \in 1..Len(raw) |-> Strip(raw[k])]
\* a trimmed line the normalizer drops
DroppedKind(l) ==
  \/ l = <<>>
  \/ \A i \in 1..Len(l) : l[i] \in Digit \cup Whitespace
  \/ PageMarker(l)
  \/ Len(l) <= 2
\* C13: the cleaned lines are, in order, exactly the trimmed raw lines that are not blank,
\* not digits and whitespace only, not a "Page <number>" line and longer than 2.
C13_CleanedLines ==
  (pc # "clean") =>
     LET raw == TrimmedRawLines(text)
         kept == {k \in 1..Len(raw) : ~DroppedKind(raw[k])}
     IN  /\ Len(lines) = Cardinality(kept)
         /\ \A i \in 1..Len(lines) : ~DroppedKind(lines[i])
         /\ \A k \in kept :
              lines[Cardinality({j \in kept : j <= k})] = raw[k]
\* cleaned lines of a text with dropped lines of each kind and a line that was trimmed
C13_Witness ==
  /\ pc # "clean"
  /\ lines # <<>>
  /\ LET raw == Split(text, NL)
     IN  /\ \E k \in 1..Len(raw) : Strip(raw[k]) = <<>>
         /\ \E k \in 1..Len(raw) : raw[k] = L_number
         /\ \E k \in 1..Len(raw) : raw[k] = L_page
         /\ \E k \in 1..Len(raw) : raw[k] = L_two_chars
         /\ \E k \in 1..Len(raw) : raw[k] # Strip(raw[k]) /\ Strip(raw[k]) \in Range(lines)

(***************************************************************************)
(* Properties of the calls of the worker threads (WorkersSpec).            *)
(***************************************************************************)
\* C14: two calls of extract_metadata on the same text return the same title, authors,
\* abstract and keywords, whatever calls ran before, between or beside them.
C14_Determinism ==
  \A i, j \in 1..Len(returned) :
     returned[i].text = returned[j].text => returned[i].metadata = returned[j].metadata
\* three finished calls, the first and the last on one text, the one between on another
C14_Witness ==
  /\ Len(returned) = 3
  /\ returned[1].text = returned[3].text
  /\ returned[2].text # returned[1].text
  /\ returned[1].metadata = returned[3].metadata
  /\ returned[1].metadata # EmptyMetadata

\* C15: a call that runs interleaved with calls on other documents returns exactly what
\* the call alone returns, and its cleaned lines are those of its own document.
C15_Isolation ==
  /\ \A i \in 1..Len(returned) : returned[i].metadata = extract_metadata(returned[i].text)
  /\ \A w \in Running :
       /\ worker[w].pc \notin {"clean"} => frame[w].lines = cleaned_lines(worker[w].text)
       /\ worker[w].pc = "return" => frame[w].metadata = extract_metadata(worker[w].text)
\* two calls on different documents that ran side by side, both about to return
C15_Witness ==
  /\ worker["w1"].pc = "return"
  /\ worker["w2"].pc = "return"
  /\ worker["w1"].text # worker["w2"].text
  /\ frame["w1"].metadata = extract_metadata(worker["w1"].text)
  /\ frame["w2"].metadata = extract_metadata(worker["w2"].text)
  /\ frame["w1"].metadata # frame["w2"].metadata

(***************************************************************************)
(* Properties of GET /extract/{filename} (ServerSpec).                     *)
(***************************************************************************)
\* a request of extract_single that handler h has answered
AnsweredExtract(h) == handler[h].op = "extract_single" /\ handler[h].pc = "done"

\* C16: when the stored PDF exists and extract_text_from_pdf yields the empty string,
\* GET /extract/{filename} answers with status 422.
C16_EmptyTextIs422 ==
  \A h \in Handlers :
     (/\ AnsweredExtract(h)
      /\ handler[h].saw = "file"
      /\ handler[h].reads = 1
      /\ handler[h].text = <<>>
      /\ Exists(folder, handler[h].filename)
      /\ folder[handler[h].filename].text = <<>>) =>
        handler[h].status = 422

\* C17: when the folder holds no file of the name (".pdf" appended when missing) at the
\* test of extract_single, whether no such file was ever uploaded or it was removed, the
\* request is answered with status 404 and extract_text_from_pdf and extract_metadata are
\* not called.
C17_MissingFileIs404 ==
  \A h \in Handlers :
     (/\ handler[h].op = "extract_single"
      /\ handler[h].pc # "check"
      /\ handler[h].saw # "file") =>
        /\ handler[h].pc = "done"
        /\ handler[h].status = 404
        /\ handler[h].reads = 0
        /\ handler[h].metadata = EmptyMetadata
\* a request for "paper", answered with 404 after paper.pdf had been uploaded and removed
C17_Witness ==
  \E h \in Handlers :
     /\ AnsweredExtract(h)
     /\ handler[h].filename = F_paper_pdf
     /\ handler[h].saw = "removed"
     /\ handler[h].status = 404
     /\ handler[h].reads = 0
     /\ ~Exists(folder, F_paper_pdf)

(***************************************************************************)
(* Properties of the title/author scan, stated on the lines the title and  *)
(* the primary authors were taken from (src).                              *)
(***************************************************************************)
\* line i of the cleaned lines holds an institutional or boilerplate marker
MarkerLine(i) == ContainsAny(ToLower(lines[i]), skip_words)
\* the first confirmed author-signature line of the scan the authors come from: the joint
\* scan in api.py, the loop of _extract_authors in extractors.py (0 if there is none)
SignatureLine ==
  IF impl = "api" THEN FirstAuthorLine(lines)
  ELSE First({k \in Window(lines, TitleScanLines) : ConfirmedAuthorLine(lines[k])})

\* C18: a line among the first 50 cleaned lines that holds a marker is never a title line
\* and is never the author-signature line the primary authors are taken from, even when
\* it matches the signature pattern.
C18_NoisePriority ==
  (pc = "done") =>
     \A i \in Window(lines, TitleScanLines) :
        MarkerLine(i) =>
          /\ i \notin Range(src.title)
          /\ ~(/\ src.strategy = "primary"
               /\ HasAuthorSignature(lines[i])
               /\ i \in Range(src.authors))

\* C19: no line after the first confirmed author-signature line of the scan is a title
\* line, and the lines the primary authors come from are that line and at most the 2 lines
\* directly after it, none of which is a further confirmed author-signature line.
C19_PostAuthorCutoff ==
  (pc = "done") =>
     /\ \A i \in Range(src.title) : FirstAuthorLine(lines) = 0 \/ i < FirstAuthorLine(lines)
     /\ src.strategy = "primary" =>
          \A j \in Range(src.authors) :
             /\ j >= SignatureLine
             /\ j <= SignatureLine + 2
             /\ j > SignatureLine => ~ConfirmedAuthorLine(lines[j])

\* C20: the title ends at the line the primary authors start from: every line of the title
\* has a lower index than every line the primary authors are taken from.
C20_JointDecisionPoint ==
  (pc = "done" /\ src.strategy = "primary") =>
     \A i \in Range(src.title) : \A j \in Range(src.authors) : i < j

(***************************************************************************)
(* Properties of the alternative author approach.                          *)
(***************************************************************************)
\* cleaned line i holds (a prefix of) the extracted title or lies inside it
HoldsTitle(i) ==
  /\ metadata.judul # None
  /\ \/ Contains(lines[i], Take(metadata.judul, ApiTitlePrefix))
     \/ Contains(metadata.judul, lines[i])
\* cleaned line i holds an abstract-header token
AbstractTokenLine(i) == ContainsAny(ToLower(lines[i]), abstract_words)
\* what "Process authors" returns from the authors the primary strategy found
PrimaryResult ==
  IF impl = "api" THEN Join(W_comma_sp, Take(Unique(api_primary_authors(lines), {}), MaxAuthors))
  ELSE Join(W_comma_sp, Take(Unique(PrimaryAuthors(lines), {}), MaxAuthors))

\* C21: the alternative approach yields the authors only when the primary strategy found
\* none and a title was extracted; the line it takes the names from is one of the 5
\* cleaned lines after a line among the first 60 that holds the extracted title, and no
\* line up to it holds an abstract-header token; authors the primary strategy found are
\* returned as they are.
C21_FallbackAnchored ==
  (pc = "done") =>
     /\ src.strategy = "fallback" =>
          /\ metadata.judul # None
          /\ \E t \in Window(lines, AltScanLines) :
               /\ HoldsTitle(t)
               /\ src.authors[1] \in (t + 1)..(t + ApiAuthorLookahead)
          /\ \A k \in 1..src.authors[1] : ~AbstractTokenLine(k)
     /\ src.strategy = "primary" => metadata.penulis = PrimaryResult

(***************************************************************************)
(* Properties of the keywords header and of the continuation line.         *)
(***************************************************************************)
\* a keywords-header token somewhere in the line, followed (after optional blanks) by a
\* dash, a colon or a period
HeaderAnywhere(line) ==
  \E p \in 1..Len(line) : KeywordsHeaderSep(ToLower(line), p, DashOrColon \cup {"."}) > 0
\* the first cleaned line with such a header (0 if none)
FirstHeaderAnywhere == First({i \in 1..Len(lines) : HeaderAnywhere(lines[i])})

\* the text after the separator of header line h, followed by the later lines
TextFromHeader(h) ==
  AfterLastKeywordsHeader(lines[h], DashOrColon \cup {"."})
    \o Flatten([k \in 1..(Len(lines) - h) |-> <<" ">> \o lines[h + k]])

\* C22: the keywords are taken from the first cleaned line that holds a keywords-header
\* token followed by a dash, colon or period, wherever the token stands in the line;
\* every keyword is text that follows the separator, and without such a line there are
\* no keywords.
C22_HeaderAnywhere ==
  (pc = "done") =>
     IF FirstHeaderAnywhere = 0
     THEN src.keywords = <<>> /\ metadata.kata_kunci = <<>>
     ELSE /\ src.keywords # <<>>
          /\ src.keywords[1] = FirstHeaderAnywhere
          /\ \A k \in 1..Len(metadata.kata_kunci) :
               Contains(TextFromHeader(FirstHeaderAnywhere), metadata.kata_kunci[k])

\* the line starts a new section: abstrak, abstract, pendahuluan or introduction in any
\* letter case, or "I." or "1." at its start
NewSectionLine(line) ==
  \/ \E w \in {W_abstrak, W_abstract, W_pendahuluan, W_introduction} : StartsWith(ToLower(line), w)
  \/ \E w \in {W_I_dot, W_one_dot} : StartsWith(line, w)
\* the keyword-section text of header line h ends with a period
SectionEndsWithPeriod(h) ==
  EndsWithChar(RStripChars(AfterLastKeywordsHeader(lines[h], DashOrColon \cup {"."}), Whitespace), ".")

\* C23: besides the header line the keywords come from at most one line, the line right
\* after the header line; that line is not appended when it starts a new section or when
\* the keyword-section text of the header line already ends with a period.
C23_ContinuationGuard ==
  (pc = "done" /\ src.keywords # <<>>) =>
     LET h == src.keywords[1]
     IN  /\ Len(src.keywords) <= 2
         /\ Len(src.keywords) = 2 =>
              /\ src.keywords[2] = h + 1
              /\ ~NewSectionLine(lines[h + 1])
              /\ ~SectionEndsWithPeriod(h)

(***************************************************************************)
(* Properties of the abstract.                                             *)
(***************************************************************************)
\* the lines after the header line that the abstract was built from
BodyLines(h) == SelectSeq(src.abstract, LAMBDA i : i # h)

C25_AbstractBeforeKeywords ==
  (pc = "done" /\ src.keywords # <<>>) =>
     \A i \in Range(src.abstract) : i < src.keywords[1]

(***************************************************************************)
(* The two implementations of extract_metadata.                            *)
(***************************************************************************)
\* what the other implementation returns for the text of the call
OtherResult ==
  IF impl = "api" THEN extract_metadata(text) ELSE api_extract_metadata(text)

\* C26: extract_metadata of api.py and extract_metadata of extractors.py return the same
\* title, authors, abstract and keywords for every text.
C26_ImplementationsAgree ==
  (pc = "done") => metadata = OtherResult

(***************************************************************************)
(* Properties of POST /upload (ServerSpec).                                *)
(***************************************************************************)
\* the step in which handler h answers an upload with an error status
UploadErrorStep(h) ==
  /\ handler[h].op = "upload_pdf"
  /\ handler[h].pc # "done"
  /\ handler'[h].pc = "done"
  /\ handler'[h].status \in {400, 500}

\* C27: an upload that is answered with 400 or 500 leaves the stored files and their
\* contents as they were, also when a file of the same name was stored before.
C27_FailedUploadKeepsStore ==
  [][\A h \in Handlers : UploadErrorStep(h) => StoredFiles(folder') = StoredFiles(folder)]_vars

(***************************************************************************)
(* Properties of GET /search (SearchSpec).                                 *)
(***************************************************************************)
\* the stored PDFs that contain the keyword of the request, in any letter case
Matching ==
  {n \in DOMAIN folder :
     /\ folder[n].exists
     /\ EndsWith(n, W_dot_pdf)
     /\ Contains(ToLower(folder[n].text), ToLower(handler.keyword))}
\* the number of occurrences of the keyword in stored file n
Occurrences(n) == Count(ToLower(folder[n].text), ToLower(handler.keyword))
\* the files of the answer
Returned == {handler.results[k].file : k \in 1..Len(handler.results)}

\* C28: the answer of GET /search is sorted by relevance_score in descending order, holds
\* at most limit results, and its results are the matching PDFs with the highest numbers
\* of occurrences of the keyword: all of them without a limit, else the limit best.
C28_BestMatches ==
  (handler.op = "search" /\ handler.pc = "done") =>
     /\ \A p, q \in 1..Len(handler.results) :
          p < q => handler.results[p].relevance_score >= handler.results[q].relevance_score
     /\ handler.limit # NoLimit => Len(handler.results) <= handler.limit
     /\ Returned \subseteq Matching
     /\ Cardinality(Returned) = Len(handler.results)
     /\ Len(handler.results) =
          IF handler.limit = NoLimit \/ Cardinality(Matching) < handler.limit
          THEN Cardinality(Matching) ELSE handler.limit
     /\ \A k \in 1..Len(handler.results) :
          handler.results[k].relevance_score = Occurrences(handler.results[k].file)
     /\ \A n \in Returned : \A m \in Matching \ Returned : Occurrences(m) <= Occurrences(n)
=============================================================================
